---- MODULE Spec2Model ----
(***************************************************************************)
(* eslint-plugin-whitespaced: the five layout rules (block-padding,        *)
(* consistent-line-spacing, aligned-assignments, class-property-grouping,  *)
(* multiline-format) as one state machine.                                 *)
(*                                                                         *)
(* A behaviour is the host's loop over one file and one rule: the file is  *)
(* parsed, the rule analyses it and reports diagnostics (some with a       *)
(* fix), the host applies fixes to the text, and the text is analysed      *)
(* again.  `rule` and `opts` are fixed by Init; `src` is the source text.  *)
(***************************************************************************)
EXTENDS Integers, Sequences, FiniteSets, TLC

VARIABLES
  rule,     \* which rule this run is about
  opts,     \* the rule's options (context.options[0], defaults filled in)
  src,      \* the source text of the file being linted
  reports,  \* the context.report() calls of the last analysis pass, in order
  phase,    \* "parsed": text not analysed yet; "analysed": reports are of src
  applied,  \* the reports whose fixes the host applied in its last fix step
  before,   \* the source text the applied fixes were computed on
  pass      \* number of fix steps done so far

vars == <<rule, opts, src, reports, phase, applied, before, pass>>

-----------------------------------------------------------------------------
(* Bounds of the model.                                                    *)

\* Most members of a generated class body.
MaxMembers == 3
\* Most blank lines between two generated class members.
MaxMemberBlank == 1
\* Largest generated paddingBetweenGroups.
MaxPadding == 1
\* Fix steps the host takes before it gives up.
MaxPasses == 2
\* Most top-level statements and comments of a generated program.
MaxStatements == 3
\* Most blank lines between two generated top-level statements.
MaxStatementBlank == 2
\* Most items (siblings and comments) of a generated body.
MaxSiblings == 3
\* Most blank lines between two items of a generated body.
MaxSiblingBlank == 2
\* Most declarations of a generated scope body.
MaxDeclarations == 3
\* Longest generated identifier.
MaxIdLength == 3
\* Most items of a generated collection literal.
MaxElements == 3

\* Most pieces a generated comment text is put together from.
MaxPieces == 2
\* Most entries of a generated literal of the layout checks.
MaxEntries == 2
\* Characters of a generated value that does not fit a short line.
LongValue == 40

-----------------------------------------------------------------------------
(* Generic helpers.                                                        *)

Max(a, b) == IF a >= b THEN a ELSE b

Min(a, b) == IF a <= b THEN a ELSE b

SeqsUpTo(S, n) == UNION {[1..k -> S] : k \in 0..n}

SeqsOfLen(S, n) == [1..n -> S]

RECURSIVE SumSeq(_)
SumSeq(s) == IF s = <<>> THEN 0 ELSE Head(s) + SumSeq(Tail(s))

RECURSIVE Repeat(_, _)
\* String.prototype.repeat on a one-character string: n copies of c.
Repeat(c, n) == IF n <= 0 THEN <<>> ELSE <<c>> \o Repeat(c, n - 1)

NoFix == [has |-> FALSE, range |-> <<0, 0>>, text |-> <<>>]

Fix(s, e, t) == [has |-> TRUE, range |-> <<s, e>>, text |-> t]

NoData == [expected |-> -1, actual |-> -1]

-----------------------------------------------------------------------------
(* Source text of the line-oriented rules.                                 *)
(*                                                                         *)
(* These rules read only line numbers and token boundaries, so the text    *)
(* is kept run-length encoded: a sequence of items (a sibling node, a      *)
(* comment, or the bracket that opens or closes the enclosing body), each  *)
(* preceded by `pre` line terminators, and `post` line terminators at the  *)
(* end of the file.  A node is Width tokens long, each token one           *)
(* character; a line terminator is one character.  loc and range of every  *)
(* item are computed from this text, and a fix is spliced into it by       *)
(* offsets.                                                                *)

IsComment(it) == it.t \in {"Line", "Block"}

IsPunct(it) == it.t \in {"{", "}"}

IsNode(it) == ~IsComment(it) /\ ~IsPunct(it)

\* Number of tokens of an item: a comment or bracket is one token, a node is
\* its first token, one inner token, and its terminating semicolon if any.
Width(it) == IF IsNode(it) THEN 2 + (IF it.semi THEN 1 ELSE 0) ELSE 1

RECURSIVE OffsetBefore(_, _)
\* Characters of the text before item i's leading line terminators.
OffsetBefore(items, i) ==
  IF i <= 1 THEN 0
  ELSE OffsetBefore(items, i - 1) + items[i - 1].pre + Width(items[i - 1])

RECURSIVE LinesBefore(_, _)
\* Line terminators of the text before item i's leading line terminators.
LinesBefore(items, i) ==
  IF i <= 1 THEN 0
  ELSE LinesBefore(items, i - 1) + items[i - 1].pre + (items[i - 1].h - 1)

\* node.range[0], node.range[1]
RangeStart(doc, i) == OffsetBefore(doc.items, i) + doc.items[i].pre

RangeEnd(doc, i) == RangeStart(doc, i) + Width(doc.items[i])

\* node.loc.start.line, node.loc.end.line (lines are 1-based)
StartLine(doc, i) == 1 + LinesBefore(doc.items, i) + doc.items[i].pre

EndLine(doc, i) == StartLine(doc, i) + doc.items[i].h - 1

\* sourceCode.getText().length
TextLength(doc) == OffsetBefore(doc.items, Len(doc.items) + 1) + doc.post

\* sourceCode.getText().split('\n').length
TotalLines(doc) == 1 + LinesBefore(doc.items, Len(doc.items) + 1) + doc.post

\* The sibling nodes of the body (parent.body), as item indices in order.
Body(doc) ==
  LET idx == [i \in 1..Len(doc.items) |-> i]
  IN  SelectSeq(idx, LAMBDA i : IsNode(doc.items[i]))

\* sourceCode.getTokenBefore(node, { includeComments }): the item holding the
\* nearest token before item i (its last token), 0 when there is none.
RECURSIVE TokenBefore(_, _, _)
TokenBefore(doc, i, includeComments) ==
  IF i <= 1 THEN 0
  ELSE IF IsComment(doc.items[i - 1]) /\ ~includeComments
       THEN TokenBefore(doc, i - 1, includeComments)
       ELSE i - 1

\* sourceCode.getTokenAfter(node, { includeComments }): the item holding the
\* nearest token after item i (its first token), 0 when there is none.
RECURSIVE TokenAfter(_, _, _)
TokenAfter(doc, i, includeComments) ==
  IF i >= Len(doc.items) THEN 0
  ELSE IF IsComment(doc.items[i + 1]) /\ ~includeComments
       THEN TokenAfter(doc, i + 1, includeComments)
       ELSE i + 1

\* Replacement text of the blank-line fixes: "\n".repeat(n)
Newlines(n) == Repeat("\n", n)


-----------------------------------------------------------------------------
(* Source text of aligned-assignments.                                     *)
(*                                                                         *)
(* This rule reads columns, so the text of a declaration is kept character *)
(* by character, run-length encoded: a sequence of segments, each n        *)
(* characters of one class: "id" (identifier), " ", ":", "type", "=",      *)
(* "init".  The text is a sequence of lines, each                          *)
(*     <indent> <kind> <declarator text> ;                                 *)
(* with `pre` line terminators before it.  Declarators with a type         *)
(* annotation are parsed as by the TypeScript parser, where the range of   *)
(* the identifier includes its annotation.                                 *)

Seg(c, n) == [c |-> c, n |-> n]

RECURSIVE SegsLength(_)
\* text.length, summed by halves
SegsLength(segs) ==
  IF segs = <<>> THEN 0
  ELSE IF Len(segs) = 1 THEN segs[1].n
  ELSE LET half == Len(segs) \div 2
       IN  SegsLength(SubSeq(segs, 1, half))
             + SegsLength(SubSeq(segs, half + 1, Len(segs)))

RECURSIVE Normalize(_)
\* The same characters with no empty segment and no two neighbours of one
\* class.
Normalize(segs) ==
  IF segs = <<>> THEN <<>>
  ELSE IF Head(segs).n = 0 THEN Normalize(Tail(segs))
  ELSE LET rest == Normalize(Tail(segs))
       IN  IF rest # <<>> /\ rest[1].c = Head(segs).c
           THEN <<Seg(Head(segs).c, Head(segs).n + rest[1].n)>> \o Tail(rest)
           ELSE <<Head(segs)>> \o rest

\* The first segment of class c, 0 when there is none.
IndexOf(segs, c) ==
  IF \E i \in 1..Len(segs) : segs[i].c = c
  THEN CHOOSE i \in 1..Len(segs) :
         segs[i].c = c /\ \A j \in 1..(i - 1) : segs[j].c # c
  ELSE 0

\* Characters before segment i.
OffsetOf(segs, i) == SegsLength(SubSeq(segs, 1, i - 1))

\* The parser accepts a declarator text: id, then an optional annotation,
\* then an optional initialiser, white space between the tokens only.
WellFormedDeclarator(segs) ==
  LET tokens == SelectSeq(segs, LAMBDA g : g.c # " ")
      classes == [i \in 1..Len(tokens) |-> tokens[i].c]
  IN  /\ segs = Normalize(segs)
      /\ segs # <<>>
      /\ segs[1].c # " " /\ segs[Len(segs)].c # " "
      /\ classes \in { <<"id">>, <<"id", "=", "init">>,
                       <<"id", ":", "type">>,
                       <<"id", ":", "type", "=", "init">> }

KindLength(kind) == IF kind = "const" THEN 5 ELSE 3

\* Column of the first character of the declarator of line i.
DeclColumn(doc, i) == doc.indent + KindLength(doc.lines[i].kind) + 1

LineLength(doc, i) == DeclColumn(doc, i) + SegsLength(doc.lines[i].decl) + 1

RECURSIVE LineOffset(_, _)
\* Offset of the first character of line i.
LineOffset(doc, i) ==
  IF i <= 1 THEN doc.lines[1].pre
  ELSE LineOffset(doc, i - 1) + LineLength(doc, i - 1) + doc.lines[i].pre

\* declarator.range
DeclStart(doc, i) == LineOffset(doc, i) + DeclColumn(doc, i)

DeclEnd(doc, i) == DeclStart(doc, i) + SegsLength(doc.lines[i].decl)

RECURSIVE DeclLine(_, _)
\* declarator.loc.start.line = loc.end.line (1-based)
DeclLine(doc, i) ==
  IF i <= 1 THEN 1 + doc.lines[1].pre
  ELSE DeclLine(doc, i - 1) + doc.lines[i].pre

\* True when every line of the text parses.
Parses(doc) ==
  "lines" \in DOMAIN doc =>
    \A i \in 1..Len(doc.lines) : WellFormedDeclarator(doc.lines[i].decl)

\* fixer.replaceText(declarator, text) applied: the text of the declarator
\* whose range the fix names is replaced.
SpliceDeclarator(doc, fix) ==
  [doc EXCEPT !.lines =
     [i \in 1..Len(doc.lines) |->
        IF DeclStart(doc, i) = fix.range[1] /\ DeclEnd(doc, i) = fix.range[2]
        THEN [doc.lines[i] EXCEPT !.decl = Normalize(fix.text)]
        ELSE doc.lines[i]]]

-----------------------------------------------------------------------------
(* Source text of multiline-format.                                        *)
(*                                                                         *)
(* The text of a run is one statement whose expression is a collection     *)
(* literal: doc.prefix characters on the first line, then the literal,     *)
(* kept character by character as segments.  The classes are the brackets  *)
(* "{" "}" "[" "]", ",", ":", " ", "\n", and "key" and "val" for the       *)
(* characters of a property key and of a value other than a literal.  A    *)
(* token is one segment; only white space is run-length merged.            *)

IsSpace(g) == g.c \in {" ", "\n"}

IsOpen(g) == g.c \in {"{", "["}

IsClose(g) == g.c \in {"}", "]"}

\* The same characters with no empty segment and every run of spaces and
\* of line terminators in one segment.
MergeSpace(segs) ==
  LET full == SelectSeq(segs, LAMBDA g : g.n # 0)
      first == SelectSeq([i \in 1..Len(full) |-> i],
                         LAMBDA i : \/ i = 1
                                    \/ ~IsSpace(full[i])
                                    \/ full[i - 1].c # full[i].c)
      last(k) == IF k = Len(first) THEN Len(full) ELSE first[k + 1] - 1
  IN  [k \in 1..Len(first) |->
         Seg(full[first[k]].c,
             SegsLength(SubSeq(full, first[k], last(k))))]

\* token.loc.start.line (counted from 0) and token.loc.start.column of the
\* token at segment i
LitLine(segs, i) ==
  SegsLength(SelectSeq(SubSeq(segs, 1, i - 1), LAMBDA g : g.c = "\n"))

LitColumn(doc, i) ==
  LET breaks == {j \in 1..(i - 1) : doc.text[j].c = "\n"}
      lastBreak == CHOOSE j \in breaks : \A k \in breaks : k <= j
  IN  IF breaks = {} THEN doc.prefix + OffsetOf(doc.text, i)
      ELSE OffsetOf(doc.text, i) - OffsetOf(doc.text, lastBreak + 1)

\* token.range of the token at segment i
LitStart(segs, i) == OffsetOf(segs, i)

LitEnd(segs, i) == OffsetOf(segs, i + 1)

\* Brackets open at segment i: those opened minus those closed up to i.
Nesting(segs, i) ==
  Cardinality({j \in 1..i : IsOpen(segs[j])})
    - Cardinality({j \in 1..i : IsClose(segs[j])})

\* The bracket that closes the literal opened at segment open, 0 when
\* there is none.
MatchClose(segs, open) ==
  LET closes == {j \in (open + 1)..Len(segs) :
                   IsClose(segs[j])
                   /\ Nesting(segs, j) = Nesting(segs, open) - 1}
  IN  IF closes = {} THEN 0
      ELSE CHOOSE j \in closes : \A k \in closes : j <= k

\* The elements of the literal between the brackets open and close: the
\* tokens between two neighbouring separators of the literal, [from, to]
\* the first and the last of them.  Nothing between two separators is no
\* element.
ElementsOf(segs, open, close) ==
  LET bounds == SelectSeq([j \in 1..Len(segs) |-> j],
                          LAMBDA j :
                            \/ j = open
                            \/ j = close
                            \/ /\ j > open /\ j < close
                               /\ segs[j].c = ","
                               /\ Nesting(segs, j) = Nesting(segs, open))
      tokens(k) == {j \in (bounds[k] + 1)..(bounds[k + 1] - 1) :
                      ~IsSpace(segs[j])}
      parts == SelectSeq([k \in 1..(Len(bounds) - 1) |-> k],
                         LAMBDA k : tokens(k) # {})
  IN  [p \in 1..Len(parts) |->
         [from |-> CHOOSE j \in tokens(parts[p]) :
                     \A m \in tokens(parts[p]) : j <= m,
          to |-> CHOOSE j \in tokens(parts[p]) :
                   \A m \in tokens(parts[p]) : j >= m]]

\* node.elements.length: the elements of the literal, holes counted.  A
\* separator after the last element adds none.
ElementCount(segs, open, close) ==
  LET commas == {j \in (open + 1)..(close - 1) :
                   segs[j].c = "," /\ Nesting(segs, j) = Nesting(segs, open)}
      lastComma == CHOOSE j \in commas : \A k \in commas : k <= j
      after == {j \in ((IF commas = {} THEN open ELSE lastComma) + 1)
                        ..(close - 1) : ~IsSpace(segs[j])}
  IN  Cardinality(commas) + (IF after = {} THEN 0 ELSE 1)

\* The collection literals of the text in traversal order; node.properties
\* or the non-null node.elements of each.
LiteralNodes(doc) ==
  LET opens == SelectSeq([i \in 1..Len(doc.text) |-> i],
                         LAMBDA i : IsOpen(doc.text[i]))
  IN  [k \in 1..Len(opens) |->
         LET close == MatchClose(doc.text, opens[k])
         IN  [open |-> opens[k],
              close |-> close,
              type |-> IF doc.text[opens[k]].c = "{" THEN "ObjectExpression"
                       ELSE "ArrayExpression",
              elements |-> ElementsOf(doc.text, opens[k], close),
              length |-> ElementCount(doc.text, opens[k], close)]]

\* The colon of a property.
ColonOf(segs, el) ==
  CHOOSE j \in el.from..el.to :
    segs[j].c = ":" /\ \A k \in el.from..(j - 1) : segs[k].c # ":"

\* fixer.replaceText / insertTextAfter / removeRange applied to the text.
SpliceSegs(doc, fix) ==
  LET segs == doc.text
      idx == [i \in 1..Len(segs) |-> i]
      left == SelectSeq(idx, LAMBDA i : LitEnd(segs, i) <= fix.range[1])
      right == SelectSeq(idx, LAMBDA i : LitStart(segs, i) >= fix.range[2])
  IN  [doc EXCEPT !.text =
         MergeSpace([i \in 1..Len(left) |-> segs[left[i]]]
                    \o fix.text
                    \o [i \in 1..Len(right) |-> segs[right[i]]])]

-----------------------------------------------------------------------------
(* The host: applying fixes to the text (spec section 5).                  *)

\* One fix spliced into the text: the items inside [s, e) go, and the line
\* terminators of text stand where the range was.
SpliceItems(doc, fix) ==
  LET s == fix.range[1]
      e == fix.range[2]
      idx == [i \in 1..Len(doc.items) |-> i]
      left == SelectSeq(idx, LAMBDA i : RangeEnd(doc, i) <= s)
      right == SelectSeq(idx, LAMBDA i : RangeStart(doc, i) >= e)
      leftEnd == IF left = <<>> THEN 0 ELSE RangeEnd(doc, left[Len(left)])
      rightStart == IF right = <<>> THEN TextLength(doc)
                    ELSE RangeStart(doc, right[1])
      gap == (s - leftEnd) + Len(fix.text) + (rightStart - e)
  IN  [doc EXCEPT
         !.items =
           [i \in 1..Len(left) |-> doc.items[left[i]]] \o
           [i \in 1..Len(right) |->
              IF i = 1 THEN [doc.items[right[1]] EXCEPT !.pre = gap]
              ELSE doc.items[right[i]]],
         !.post = IF right = <<>> THEN gap ELSE doc.post]

\* One fix applied to the text.
ApplyFix(doc, fix) ==
  IF "lines" \in DOMAIN doc THEN SpliceDeclarator(doc, fix)
  ELSE IF "text" \in DOMAIN doc THEN SpliceSegs(doc, fix)
  ELSE SpliceItems(doc, fix)

\* a sorts before b: by fix.range[0], then by fix.range[1].
FixBefore(a, b) ==
  \/ a.fix.range[1] < b.fix.range[1]
  \/ a.fix.range[1] = b.fix.range[1] /\ a.fix.range[2] < b.fix.range[2]

RECURSIVE InsertByRange(_, _)
InsertByRange(r, sorted) ==
  IF sorted = <<>> THEN <<r>>
  ELSE IF FixBefore(r, Head(sorted)) THEN <<r>> \o sorted
       ELSE <<Head(sorted)>> \o InsertByRange(r, Tail(sorted))

RECURSIVE SortByRange(_)
\* The reports ordered by fix range, reports of equal range in report order.
SortByRange(rs) ==
  IF rs = <<>> THEN <<>>
  ELSE LET n == Len(rs)
       IN  InsertByRange(rs[n], SortByRange(SubSeq(rs, 1, n - 1)))

RECURSIVE TakeDisjoint(_, _, _)
\* The batch the host applies in one step: going through the sorted fixes, a
\* fix is taken unless it starts at or before the end of the last one taken.
TakeDisjoint(sorted, lastPos, started) ==
  IF sorted = <<>> THEN <<>>
  ELSE LET r == Head(sorted)
           skip == (started /\ lastPos >= r.fix.range[1])
                   \/ r.fix.range[1] > r.fix.range[2]
       IN  IF skip THEN TakeDisjoint(Tail(sorted), lastPos, started)
           ELSE <<r>> \o TakeDisjoint(Tail(sorted), r.fix.range[2], TRUE)

WithFix(rs) == SelectSeq(rs, LAMBDA r : r.fix.has)

Batch(rs) == TakeDisjoint(SortByRange(WithFix(rs)), 0, FALSE)

RECURSIVE ApplyBatch(_, _)
\* The fixes of a batch (sorted, disjoint) applied from the last to the
\* first, so that every range still names the text it was computed on.
ApplyBatch(doc, batch) ==
  IF batch = <<>> THEN doc
  ELSE ApplyBatch(ApplyFix(doc, batch[Len(batch)].fix),
                  SubSeq(batch, 1, Len(batch) - 1))

-----------------------------------------------------------------------------
(* class-property-grouping                                                 *)

DefaultGroups ==
  << [name |-> "static-properties", types |-> {"ClassProperty"},
      matches |-> {"static"}, order |-> 0],
     [name |-> "static-methods", types |-> {"MethodDefinition"},
      matches |-> {"static"}, order |-> 1],
     [name |-> "instance-properties", types |-> {"ClassProperty"},
      matches |-> {}, order |-> 2],
     [name |-> "constructor", types |-> {"MethodDefinition"},
      matches |-> {"constructor"}, order |-> 3],
     [name |-> "instance-methods", types |-> {"MethodDefinition"},
      matches |-> {}, order |-> 4] >>

\* nodeType after the normalisation of property definitions
NormalizedType(node) ==
  IF node.t \in {"PropertyDefinition", "TSPropertyDefinition"}
  THEN "ClassProperty" ELSE node.t

\* getMemberGroup's round with every listed predicate required: "static"
\* asks for a static member, "constructor" for a constructor, none for a
\* member that is neither.
GroupAcceptsAllPredicates(node, group) ==
  LET nodeType == IF node.t \in {"PropertyDefinition", "TSPropertyDefinition"}
                  THEN "ClassProperty" ELSE node.t
  IN  /\ nodeType \in group.types
      /\ "static" \in group.matches => node.static
      /\ "constructor" \in group.matches => node.kind = "constructor"
      /\ group.matches = {} => ~node.static /\ node.kind # "constructor"

\* One round of getMemberGroup's loop: TRUE when it returns `group`.
GroupAccepts(node, group) ==
  LET nodeType == NormalizedType(node)
      isConstructor == node.kind = "constructor"
      isStatic == node.static
  IN  /\ nodeType \in group.types
      /\ \/ /\ nodeType = "MethodDefinition"
            /\ \/ isConstructor /\ "constructor" \in group.matches
               \/ isStatic /\ "static" \in group.matches
               \/ /\ ~isStatic /\ ~isConstructor
                  /\ "static" \notin group.matches
                  /\ "constructor" \notin group.matches
         \/ /\ nodeType = "ClassProperty"
            /\ \/ isStatic /\ "static" \in group.matches
               \/ ~isStatic /\ "static" \notin group.matches

\* One round of getMemberGroup's loop raises a TypeError: the descriptor
\* has no `types` to call includes on, or it lists the kind of a method or
\* property and has no `matches` (for each such member one of the tests
\* that is evaluated calls group.matches.includes).
GroupRaises(node, group) ==
  \/ "types" \notin DOMAIN group
  \/ /\ NormalizedType(node) \in group.types
     /\ NormalizedType(node) \in {"MethodDefinition", "ClassProperty"}
     /\ "matches" \notin DOMAIN group

RECURSIVE FirstAccepting(_, _, _)
FirstAccepting(node, groups, g) ==
  IF g > Len(groups) THEN 0
  ELSE IF GroupRaises(node, groups[g]) THEN -1
  ELSE IF GroupAccepts(node, groups[g]) THEN g
       ELSE FirstAccepting(node, groups, g + 1)

\* The group of a member: the index in opts.groups of the descriptor
\* returned, 0 for null, -1 when the loop raised.
getMemberGroup(node) == FirstAccepting(node, opts.groups, 1)

getMemberName(node) ==
  IF node.t \in {"MethodDefinition", "ClassProperty", "PropertyDefinition",
                 "TSPropertyDefinition"}
  THEN node.name ELSE ""

\* String.prototype.localeCompare on the member names of the model: "a"
\* sorts before "B" (the ordering is not by code unit).
LocaleRank(name) ==
  CASE name = "a" -> 1 [] name = "B" -> 2 [] name = "constructor" -> 3
    [] OTHER -> 0

localeCompare(x, y) == LocaleRank(x) - LocaleRank(y)

RECURSIVE checkGroupOrderForgetting(_, _, _, _, _)
\* checkGroupOrder with a slip: an unmatched member resets the remembered
\* group instead of being skipped.
checkGroupOrderForgetting(doc, members, i, lastGroupOrder, lastGroup) ==
  IF i > Len(members) THEN <<>>
  ELSE IF members[i].group = 0
       THEN checkGroupOrderForgetting(doc, members, i + 1, -1, 0)
       ELSE LET node == members[i].node
                group == opts.groups[members[i].group]
                lastGroupInfo == opts.groups[lastGroup]
                rep == [messageId |-> "wrongGroupOrder",
                        node |-> node,
                        data |-> [member |-> getMemberName(doc.items[node]),
                                  expectedGroup |-> lastGroupInfo.name,
                                  expectedGroupOrder |-> lastGroupInfo.order,
                                  actualGroup |-> group.name,
                                  actualGroupOrder |-> group.order],
                        fix |-> NoFix]
            IN  (IF group.order < lastGroupOrder THEN <<rep>> ELSE <<>>)
                \o checkGroupOrderForgetting(doc, members, i + 1,
                                             group.order, members[i].group)

RECURSIVE checkGroupOrderHighWater(_, _, _, _, _)
\* checkGroupOrder with a slip: the remembered group is only replaced by a
\* member that is in order, so members are compared with the highest group
\* seen so far.
checkGroupOrderHighWater(doc, members, i, lastGroupOrder, lastGroup) ==
  IF i > Len(members) THEN <<>>
  ELSE IF members[i].group = 0
       THEN checkGroupOrderHighWater(doc, members, i + 1, lastGroupOrder,
                                     lastGroup)
       ELSE LET node == members[i].node
                group == opts.groups[members[i].group]
                lastGroupInfo == opts.groups[lastGroup]
                bad == group.order < lastGroupOrder
                rep == [messageId |-> "wrongGroupOrder",
                        node |-> node,
                        data |-> [member |-> getMemberName(doc.items[node]),
                                  expectedGroup |-> lastGroupInfo.name,
                                  expectedGroupOrder |-> lastGroupInfo.order,
                                  actualGroup |-> group.name,
                                  actualGroupOrder |-> group.order],
                        fix |-> NoFix]
            IN  (IF bad THEN <<rep>> ELSE <<>>)
                \o checkGroupOrderHighWater(doc, members, i + 1,
                      IF bad THEN lastGroupOrder ELSE group.order,
                      IF bad THEN lastGroup ELSE members[i].group)

RECURSIVE checkGroupOrderFrom(_, _, _, _, _)
checkGroupOrderFrom(doc, members, i, lastGroupOrder, lastGroup) ==
  IF i > Len(members) THEN <<>>
  ELSE IF members[i].group = 0
       THEN checkGroupOrderFrom(doc, members, i + 1, lastGroupOrder, lastGroup)
       ELSE LET node == members[i].node
                group == opts.groups[members[i].group]
                currentGroupOrder == group.order
                lastGroupInfo == opts.groups[lastGroup]
                rep == [messageId |-> "wrongGroupOrder",
                        node |-> node,
                        data |-> [member |-> getMemberName(doc.items[node]),
                                  expectedGroup |-> lastGroupInfo.name,
                                  expectedGroupOrder |-> lastGroupInfo.order,
                                  actualGroup |-> group.name,
                                  actualGroupOrder |-> group.order],
                        fix |-> NoFix]
            IN  (IF currentGroupOrder < lastGroupOrder THEN <<rep>> ELSE <<>>)
                \o checkGroupOrderFrom(doc, members, i + 1, currentGroupOrder,
                                       members[i].group)

checkGroupOrder(doc, members) == checkGroupOrderFrom(doc, members, 1, -1, 0)

\* The keys of groupedMembers in insertion order: the names of the matched
\* groups in order of first appearance.
RECURSIVE GroupNamesFrom(_, _, _)
GroupNamesFrom(members, i, seen) ==
  IF i > Len(members) THEN <<>>
  ELSE IF members[i].group = 0
       THEN GroupNamesFrom(members, i + 1, seen)
       ELSE LET nm == opts.groups[members[i].group].name
            IN  IF nm \in seen THEN GroupNamesFrom(members, i + 1, seen)
                ELSE <<nm>> \o GroupNamesFrom(members, i + 1, seen \cup {nm})

RECURSIVE checkAlphabeticalIn(_, _, _)
checkAlphabeticalIn(doc, groupMembers, i) ==
  IF i > Len(groupMembers) THEN <<>>
  ELSE LET prevNode == groupMembers[i - 1].node
           currentNode == groupMembers[i].node
           prevName == getMemberName(doc.items[prevNode])
           currentName == getMemberName(doc.items[currentNode])
           rep == [messageId |-> "wrongAlphabeticalOrder",
                   node |-> currentNode,
                   data |-> [memberA |-> currentName, memberB |-> prevName],
                   fix |-> NoFix]
       IN  (IF prevName # "" /\ currentName # ""
               /\ localeCompare(prevName, currentName) > 0
            THEN <<rep>> ELSE <<>>)
           \o checkAlphabeticalIn(doc, groupMembers, i + 1)

RECURSIVE checkAlphabeticalGroups(_, _, _)
checkAlphabeticalGroups(doc, members, names) ==
  IF names = <<>> THEN <<>>
  ELSE LET groupMembers ==
             SelectSeq(members, LAMBDA m :
               m.group # 0 /\ opts.groups[m.group].name = Head(names))
       IN  checkAlphabeticalIn(doc, groupMembers, 2)
           \o checkAlphabeticalGroups(doc, members, Tail(names))

\* Group names that `groupedMembers = {}` already answers for, through
\* Object.prototype: the lookup is truthy, no list is created, and push is
\* called on what was inherited.
InheritedKeys == {"constructor", "toString", "valueOf", "hasOwnProperty"}

\* threw: groupedMembers[groupName].push is not a function (a TypeError).
checkAlphabeticalOrder(doc, members) ==
  IF ~opts.enforceAlphabeticalSorting THEN <<>>
  ELSE IF \E i \in 1..Len(members) :
            /\ members[i].group # 0
            /\ opts.groups[members[i].group].name \in InheritedKeys
  THEN << [threw |-> TRUE] >>
  ELSE checkAlphabeticalGroups(doc, members, GroupNamesFrom(members, 1, {}))

RECURSIVE checkGroupPaddingFrom(_, _, _)
checkGroupPaddingFrom(doc, members, i) ==
  IF i > Len(members) THEN <<>>
  ELSE LET prevMember == members[i - 1]
           currentMember == members[i]
           prevNode == prevMember.node
           currentNode == currentMember.node
           blankLines == StartLine(doc, currentNode) - EndLine(doc, prevNode) - 1
           rep == [messageId |-> "incorrectPaddingBetweenGroups",
                   node |-> currentNode,
                   data |-> [expected |-> opts.paddingBetweenGroups,
                             actual |-> blankLines],
                   fix |-> Fix(RangeEnd(doc, prevNode),
                               RangeStart(doc, currentNode),
                               Newlines(opts.paddingBetweenGroups + 1))]
           differ == /\ prevMember.group # 0
                     /\ currentMember.group # 0
                     /\ opts.groups[prevMember.group].name
                          # opts.groups[currentMember.group].name
       IN  (IF differ /\ blankLines # opts.paddingBetweenGroups
            THEN <<rep>> ELSE <<>>)
           \o checkGroupPaddingFrom(doc, members, i + 1)

checkGroupPadding(doc, members) ==
  IF opts.paddingBetweenGroups <= 0 \/ Len(members) < 2 THEN <<>>
  ELSE checkGroupPaddingFrom(doc, members, 2)

\* The ClassBody handler: all reports of one pass over a class body.
GroupingClassBody(doc) ==
  LET body == Body(doc)
      members == [i \in 1..Len(body) |->
                    [node |-> body[i],
                     group |-> getMemberGroup(doc.items[body[i]])]]
  IN  IF Len(body) <= 1 THEN <<>>
      ELSE IF \E i \in 1..Len(body) : members[i].group = -1
      THEN << [threw |-> TRUE] >>
      ELSE checkGroupOrder(doc, members)
           \o checkAlphabeticalOrder(doc, members)
           \o checkGroupPadding(doc, members)


-----------------------------------------------------------------------------
(* Generated inputs of class-property-grouping.                            *)

Item(t, static, kind, name, semi, h, txt) ==
  [t |-> t, static |-> static, kind |-> kind, name |-> name, semi |-> semi,
   h |-> h, txt |-> txt, pre |-> 1]

OpenBrace == [Item("{", FALSE, "", "", FALSE, 1, <<>>) EXCEPT !.pre = 0]

CloseBrace == Item("}", FALSE, "", "", FALSE, 1, <<>>)

\* The class members of the generated bodies: static and instance
\* properties and methods, a constructor, a static initialisation block.
MemberShapes ==
  { Item("PropertyDefinition", TRUE, "", "a", TRUE, 1, <<>>),
    Item("PropertyDefinition", FALSE, "", "a", TRUE, 1, <<>>),
    Item("PropertyDefinition", FALSE, "", "B", TRUE, 1, <<>>),
    Item("MethodDefinition", TRUE, "method", "a", FALSE, 2, <<>>),
    Item("MethodDefinition", FALSE, "method", "a", FALSE, 2, <<>>),
    Item("MethodDefinition", FALSE, "method", "B", FALSE, 2, <<>>),
    Item("MethodDefinition", FALSE, "constructor", "constructor", FALSE, 2, <<>>),
    Item("StaticBlock", FALSE, "", "", FALSE, 1, <<>>) }

\* Group configurations besides the default: one that leaves instance
\* properties and constructors unmatched, one whose orders do not follow the
\* list order and repeat.
MethodsThenStatics ==
  << [name |-> "methods", types |-> {"MethodDefinition"},
      matches |-> {}, order |-> 0],
     [name |-> "statics", types |-> {"ClassProperty", "MethodDefinition"},
      matches |-> {"static"}, order |-> 1] >>

RepeatedOrders ==
  << [name |-> "props", types |-> {"ClassProperty"},
      matches |-> {}, order |-> 2],
     [name |-> "ctor", types |-> {"MethodDefinition"},
      matches |-> {"constructor"}, order |-> 2],
     [name |-> "rest", types |-> {"MethodDefinition", "ClassProperty"},
      matches |-> {"static"}, order |-> 0] >>

GroupConfigs == {DefaultGroups, MethodsThenStatics, RepeatedOrders}

\* class X { <members> }: the members one per line or further apart.
ClassDoc(shapes, pres) ==
  [items |-> <<OpenBrace>>
             \o [i \in 1..Len(shapes) |-> [shapes[i] EXCEPT !.pre = pres[i]]]
             \o <<CloseBrace>>,
   post |-> 0]

\* Class bodies of up to MaxMembers members; the first member is on the
\* line after the opening brace, each later one has up to maxBlank blank
\* lines before it.
ClassDocs(maxBlank) ==
  UNION { { ClassDoc(shapes, pres) :
              shapes \in SeqsOfLen(MemberShapes, n),
              pres \in { p \in SeqsOfLen(1..(maxBlank + 1), n) :
                           n = 0 \/ p[1] = 1 } }
          : n \in 0..MaxMembers }

\* Group configurations for the classification: a descriptor with both
\* predicates, a property descriptor with the constructor predicate, and a
\* descriptor for a kind of member that is neither method nor property.
EitherPredicate ==
  << [name |-> "special", types |-> {"MethodDefinition"},
      matches |-> {"static", "constructor"}, order |-> 0],
     [name |-> "rest", types |-> {"MethodDefinition", "ClassProperty"},
      matches |-> {}, order |-> 1] >>

ConstructorProperties ==
  << [name |-> "blocks", types |-> {"StaticBlock"},
      matches |-> {}, order |-> 0],
     [name |-> "odd", types |-> {"ClassProperty"},
      matches |-> {"constructor"}, order |-> 1],
     [name |-> "methods", types |-> {"MethodDefinition"},
      matches |-> {}, order |-> 2] >>

ClassificationConfigs ==
  {DefaultGroups, EitherPredicate, ConstructorProperties}

GroupingOptions ==
  [groups : GroupConfigs,
   paddingBetweenGroups : 0..MaxPadding,
   enforceAlphabeticalSorting : BOOLEAN]

InitGrouping ==
  /\ rule = "class-property-grouping"
  /\ opts \in GroupingOptions
  /\ src \in ClassDocs(MaxMemberBlank)
  /\ reports = <<>>
  /\ phase = "parsed"
  /\ applied = <<>>
  /\ before = src
  /\ pass = 0

\* The inputs of the classification: every class body, the members one per
\* line, under the default groups and the two lists above, with all three
\* checks on.
InitClassification ==
  /\ rule = "class-property-grouping"
  /\ opts \in [groups : ClassificationConfigs,
               paddingBetweenGroups : {1},
               enforceAlphabeticalSorting : {TRUE}]
  /\ src \in ClassDocs(0)
  /\ reports = <<>>
  /\ phase = "parsed"
  /\ applied = <<>>
  /\ before = src
  /\ pass = 0

\* Group lists the schema accepts: a descriptor needs `name` and `order`
\* only.
NamesOnly ==
  << [name |-> "all", order |-> 0] >>

StaticsThenNamed ==
  << [name |-> "statics", types |-> {"ClassProperty", "MethodDefinition"},
      matches |-> {"static"}, order |-> 0],
     [name |-> "rest", order |-> 1] >>

TypesOnly ==
  << [name |-> "blocks", types |-> {"StaticBlock"}, order |-> 0],
     [name |-> "methods", types |-> {"MethodDefinition"}, order |-> 1] >>

AcceptedConfigs ==
  {DefaultGroups, <<>>, NamesOnly, StaticsThenNamed, TypesOnly}

\* The inputs of the configuration check: every class body under group
\* lists with and without the optional keys.
InitConfiguration ==
  /\ rule = "class-property-grouping"
  /\ opts \in [groups : AcceptedConfigs,
               paddingBetweenGroups : {0, 1},
               enforceAlphabeticalSorting : BOOLEAN]
  /\ src \in ClassDocs(0)
  /\ reports = <<>>
  /\ phase = "parsed"
  /\ applied = <<>>
  /\ before = src
  /\ pass = 0

\* Members of the alphabetical check: instance properties and methods named
\* a and B, a property whose key has no name for getMemberName (a private
\* name, or a computed key that is no identifier and no literal), and a
\* constructor.
NamedShapes ==
  { Item("PropertyDefinition", FALSE, "", "a", TRUE, 1, <<>>),
    Item("PropertyDefinition", FALSE, "", "B", TRUE, 1, <<>>),
    Item("PropertyDefinition", FALSE, "", "", TRUE, 1, <<>>),
    Item("MethodDefinition", FALSE, "method", "a", FALSE, 2, <<>>),
    Item("MethodDefinition", FALSE, "constructor", "constructor", FALSE, 2, <<>>) }

\* A list in which two descriptors have one name.
SharedName ==
  << [name |-> "members", types |-> {"ClassProperty"},
      matches |-> {}, order |-> 0],
     [name |-> "members", types |-> {"MethodDefinition"},
      matches |-> {}, order |-> 0] >>

\* The inputs of the alphabetical check: every class body of the members
\* above, one per line, under the default groups and the list above, with
\* the check on and off.
InitAlphabetical ==
  /\ rule = "class-property-grouping"
  /\ opts \in [groups : {DefaultGroups, SharedName},
               paddingBetweenGroups : {1},
               enforceAlphabeticalSorting : BOOLEAN]
  /\ src \in UNION { { ClassDoc(shapes, [i \in 1..n |-> 1]) :
                         shapes \in SeqsOfLen(NamedShapes, n) }
                     : n \in 0..MaxMembers }
  /\ reports = <<>>
  /\ phase = "parsed"
  /\ applied = <<>>
  /\ before = src
  /\ pass = 0

\* The inputs of the group order check: every class body and group
\* configuration, the members one per line, the other options at their
\* defaults.
InitGroupOrder ==
  /\ rule = "class-property-grouping"
  /\ opts \in [groups : GroupConfigs,
               paddingBetweenGroups : {1},
               enforceAlphabeticalSorting : {FALSE}]
  /\ src \in ClassDocs(0)
  /\ reports = <<>>
  /\ phase = "parsed"
  /\ applied = <<>>
  /\ before = src
  /\ pass = 0

-----------------------------------------------------------------------------
(* consistent-line-spacing                                                 *)

SpacingDefaults ==
  [beforeImports |-> 1, afterImports |-> 1,
   beforeExports |-> 1, afterExports |-> 1,
   beforeClass |-> 2, afterClass |-> 2,
   beforeFunction |-> 2, afterFunction |-> 2,
   beforeComment |-> 1,
   ignoreTopLevelCode |-> FALSE, skipImportGroups |-> TRUE]

\* parent.body[0] === node, parent.body[length - 1] === node (the parent of
\* every statement of the model is the Program)
isFirstInParent(doc, i) == Body(doc) = <<>> \/ Body(doc)[1] = i

isLastInParent(doc, i) == Body(doc) = <<>> \/ Body(doc)[Len(Body(doc))] = i

isTopLevel(doc, i) == TRUE

\* isImport with a slip: export declarations count as imports too.
isImportOrExport(type) ==
  type \in {"ImportDeclaration", "ExportNamedDeclaration",
            "ExportDefaultDeclaration", "ExportAllDeclaration"}

isImport(type) == type = "ImportDeclaration"

isExport(type) ==
  type \in {"ExportNamedDeclaration", "ExportDefaultDeclaration",
            "ExportAllDeclaration"}

\* sourceCode.getNodeByRangeIndex(token.range[0]) for the last token (atEnd)
\* or the first token of statement i: the type of the deepest node that
\* contains the token.  The last token of an import without a semicolon is
\* its source string, a Literal; a body's closing brace belongs to the body.
getNodeByRangeIndex(doc, i, atEnd) ==
  LET it == doc.items[i]
  IN  IF ~atEnd THEN it.t
      ELSE CASE it.t = "ImportDeclaration" ->
                  IF it.semi THEN "ImportDeclaration" ELSE "Literal"
             [] it.t = "FunctionDeclaration" -> "BlockStatement"
             [] it.t = "ClassDeclaration" -> "ClassBody"
             [] it.t = "ExpressionStatement" ->
                  IF it.semi THEN "ExpressionStatement" ELSE "Identifier"
             [] OTHER -> it.t

\* checkLinesBefore without the return for a missing token: a statement
\* with nothing before it is measured from the start of the text.
checkLinesBeforeFromTop(doc, node, requiredLines, nodeType) ==
  LET prevToken == TokenBefore(doc, node, FALSE)
      prevNode == IF prevToken # 0 THEN getNodeByRangeIndex(doc, prevToken, TRUE)
                  ELSE "null"
      prevTokenWithComments == TokenBefore(doc, node, TRUE)
      blankLines == IF prevTokenWithComments = 0 THEN StartLine(doc, node) - 1
                    ELSE StartLine(doc, node)
                           - EndLine(doc, prevTokenWithComments) - 1
  IN  IF isFirstInParent(doc, node)
         /\ (opts.ignoreTopLevelCode /\ isTopLevel(doc, node))
      THEN <<>>
      ELSE IF opts.skipImportGroups /\ isImport(doc.items[node].t)
              /\ prevNode # "null" /\ isImport(prevNode)
      THEN <<>>
      ELSE IF blankLines # requiredLines
      THEN << [messageId |-> "missingLinesBefore",
               node |-> node,
               data |-> [expected |-> requiredLines, actual |-> blankLines,
                         nodeType |-> nodeType],
               fix |-> Fix(IF prevTokenWithComments = 0 THEN 0
                           ELSE RangeEnd(doc, prevTokenWithComments),
                           RangeStart(doc, node),
                           Newlines(requiredLines + 1))] >>
      ELSE <<>>

checkLinesBefore(doc, node, requiredLines, nodeType) ==
  LET prevToken == TokenBefore(doc, node, FALSE)
      prevNode == IF prevToken # 0 THEN getNodeByRangeIndex(doc, prevToken, TRUE)
                  ELSE "null"
      prevTokenWithComments == TokenBefore(doc, node, TRUE)
      blankLines == StartLine(doc, node) - EndLine(doc, prevTokenWithComments) - 1
  IN  IF isFirstInParent(doc, node)
         /\ (opts.ignoreTopLevelCode /\ isTopLevel(doc, node))
      THEN <<>>
      ELSE IF opts.skipImportGroups /\ isImport(doc.items[node].t)
              /\ prevNode # "null" /\ isImport(prevNode)
      THEN <<>>
      ELSE IF prevTokenWithComments = 0 THEN <<>>
      ELSE IF blankLines # requiredLines
      THEN << [messageId |-> "missingLinesBefore",
               node |-> node,
               data |-> [expected |-> requiredLines, actual |-> blankLines,
                         nodeType |-> nodeType],
               fix |-> Fix(RangeEnd(doc, prevTokenWithComments),
                           RangeStart(doc, node),
                           Newlines(requiredLines + 1))] >>
      ELSE <<>>

checkLinesAfter(doc, node, requiredLines, nodeType) ==
  LET nextToken == TokenAfter(doc, node, FALSE)
      nextNode == IF nextToken # 0 THEN getNodeByRangeIndex(doc, nextToken, FALSE)
                  ELSE "null"
      nextTokenWithComments == TokenAfter(doc, node, TRUE)
      blankLines == StartLine(doc, nextTokenWithComments) - EndLine(doc, node) - 1
  IN  IF isLastInParent(doc, node)
         /\ (opts.ignoreTopLevelCode /\ isTopLevel(doc, node))
      THEN <<>>
      ELSE IF opts.skipImportGroups /\ isImport(doc.items[node].t)
              /\ nextNode # "null" /\ isImport(nextNode)
      THEN <<>>
      ELSE IF nextTokenWithComments = 0 THEN <<>>
      ELSE IF blankLines # requiredLines
      THEN << [messageId |-> "missingLinesAfter",
               node |-> node,
               data |-> [expected |-> requiredLines, actual |-> blankLines,
                         nodeType |-> nodeType],
               fix |-> Fix(RangeEnd(doc, node),
                           RangeStart(doc, nextTokenWithComments),
                           Newlines(requiredLines + 1))] >>
      ELSE <<>>

\* The handlers of the rule applied to statement i: the before check, then
\* the after check, with the counts of the statement's category.  Comments
\* are not nodes of the tree, so no handler runs for them, and statements of
\* other kinds have no handler.
SpacingHandler(doc, i) ==
  LET t == doc.items[i].t
  IN  CASE isImport(t) ->
             checkLinesBefore(doc, i, opts.beforeImports, "import declaration")
             \o checkLinesAfter(doc, i, opts.afterImports, "import declaration")
        [] isExport(t) ->
             checkLinesBefore(doc, i, opts.beforeExports, "export declaration")
             \o checkLinesAfter(doc, i, opts.afterExports, "export declaration")
        [] t = "ClassDeclaration" ->
             checkLinesBefore(doc, i, opts.beforeClass, "class declaration")
             \o checkLinesAfter(doc, i, opts.afterClass, "class declaration")
        [] t = "FunctionDeclaration" ->
             checkLinesBefore(doc, i, opts.beforeFunction, "function declaration")
             \o checkLinesAfter(doc, i, opts.afterFunction, "function declaration")
        [] OTHER -> <<>>

RECURSIVE SpacingFrom(_, _)
SpacingFrom(doc, i) ==
  IF i > Len(doc.items) THEN <<>>
  ELSE SpacingHandler(doc, i) \o SpacingFrom(doc, i + 1)

\* All reports of one pass over a Program.
SpacingProgram(doc) == SpacingFrom(doc, 1)

-----------------------------------------------------------------------------
(* Generated inputs of consistent-line-spacing.                            *)

Statement(t, semi, h) == Item(t, FALSE, "", "", semi, h, <<>>)

\* The top-level statements of the generated programs: an import with and
\* without its semicolon, an export list, a class, a function, an expression
\* statement, and the two kinds of comment.
StatementShapes ==
  { Statement("ImportDeclaration", TRUE, 1),
    Statement("ImportDeclaration", FALSE, 1),
    Statement("ExportNamedDeclaration", TRUE, 1),
    Statement("ClassDeclaration", FALSE, 2),
    Statement("FunctionDeclaration", FALSE, 1),
    Statement("ExpressionStatement", TRUE, 1),
    Statement("Line", FALSE, 1),
    Statement("Block", FALSE, 2) }

ProgramDoc(shapes, pres) ==
  [items |-> [i \in 1..Len(shapes) |-> [shapes[i] EXCEPT !.pre = pres[i]]],
   post |-> 1]

\* Programs of n statements out of S: the first on the first line, each
\* later one on a line of its own with up to maxBlank blank lines before it.
ProgramDocs(S, n, maxBlank) ==
  { ProgramDoc(shapes, pres) :
      shapes \in SeqsOfLen(S, n),
      pres \in { p \in SeqsOfLen(0..(maxBlank + 1), n) :
                   /\ n > 0 => p[1] = 0
                   /\ \A i \in 2..n : p[i] >= 1 } }

\* The option sets of the generated runs: the defaults, the defaults with
\* each switch flipped, and a configuration whose counts all agree.
SpacingConfigs ==
  { SpacingDefaults,
    [SpacingDefaults EXCEPT !.skipImportGroups = FALSE],
    [SpacingDefaults EXCEPT !.ignoreTopLevelCode = TRUE],
    [SpacingDefaults EXCEPT !.beforeClass = 1, !.afterClass = 1,
                            !.beforeFunction = 1, !.afterFunction = 1] }

\* The inputs of the import group exemption: programs of imports (with
\* and without semicolon), exports, functions and line comments, with the
\* exemption switched on and off.
InitImportGroups ==
  /\ rule = "consistent-line-spacing"
  /\ opts \in { SpacingDefaults,
                [SpacingDefaults EXCEPT !.skipImportGroups = FALSE] }
  /\ src \in UNION { ProgramDocs(
                       { sh \in StatementShapes :
                           sh.t \in {"ImportDeclaration",
                                     "ExportNamedDeclaration",
                                     "FunctionDeclaration", "Line"} },
                       n, MaxStatementBlank)
                       : n \in 1..MaxStatements }
  /\ reports = <<>>
  /\ phase = "parsed"
  /\ applied = <<>>
  /\ before = src
  /\ pass = 0

\* The inputs of the missing neighbour: programs of imports, functions,
\* expression statements and line comments, with ignoreTopLevelCode off and
\* on.
InitNeighbours ==
  /\ rule = "consistent-line-spacing"
  /\ opts \in { SpacingDefaults,
                [SpacingDefaults EXCEPT !.ignoreTopLevelCode = TRUE] }
  /\ src \in UNION { ProgramDocs(
                       { Statement("ImportDeclaration", TRUE, 1),
                         Statement("FunctionDeclaration", FALSE, 1),
                         Statement("Line", FALSE, 1) },
                       n, MaxStatementBlank)
                       : n \in 1..MaxStatements }
  /\ reports = <<>>
  /\ phase = "parsed"
  /\ applied = <<>>
  /\ before = src
  /\ pass = 0

InitSpacing ==
  /\ rule = "consistent-line-spacing"
  /\ opts \in SpacingConfigs
  /\ src \in UNION { ProgramDocs(StatementShapes, n, MaxStatementBlank)
                       : n \in 1..MaxStatements }
  /\ reports = <<>>
  /\ phase = "parsed"
  /\ applied = <<>>
  /\ before = src
  /\ pass = 0

-----------------------------------------------------------------------------
(* block-padding                                                           *)
(*                                                                         *)
(* The text of a run is one body: the statements of a Program, or the      *)
(* statements, cases or members between the brackets of one block, switch  *)
(* or class body, which is then the only declaration of the file.          *)
(* doc.parent is the type of the node that owns the body.                  *)

PaddingDefaults ==
  [rootBlockPadding |-> 2, nestedBlockPadding |-> 1,
   enforceBeginningPadding |-> FALSE, enforceEndPadding |-> FALSE,
   docstringPadding |-> 1, treatCommentsAsDocstrings |-> TRUE]

getBlankLinesBetween(doc, node1, node2) ==
  StartLine(doc, node2) - EndLine(doc, node1) - 1

\* comment.value is a sequence of characters.
\* String.prototype.includes
Includes(text, part) ==
  \E i \in 1..(Len(text) - Len(part) + 1) :
    SubSeq(text, i, i + Len(part) - 1) = part

\* \w of a regular expression
IsWordChar(c) ==
  c \in { "a", "c", "d", "e", "h", "i", "l", "m", "n", "o", "p", "r", "s",
          "t", "u", "x", "A", "M", "P", "R", "_", "0" }

\* The words of the annotation pattern.
DocstringWords ==
  { <<"p", "a", "r", "a", "m">>,
    <<"r", "e", "t", "u", "r", "n">>,
    <<"d", "e", "s", "c", "r", "i", "p", "t", "i", "o", "n">>,
    <<"e", "x", "a", "m", "p", "l", "e">>,
    <<"a", "u", "t", "h", "o", "r">> }

\* The same test with the case of the letters ignored.
HasDocstringPatternAnyCase(value) ==
  LET lower(c) == CASE c = "A" -> "a" [] c = "M" -> "m" [] c = "P" -> "p"
                    [] c = "R" -> "r" [] OTHER -> c
      folded == [i \in 1..Len(value) |-> lower(value[i])]
  IN  \/ \E i \in 1..(Len(value) - 1) :
           value[i] = "@" /\ IsWordChar(value[i + 1])
      \/ \E w \in DocstringWords : Includes(folded, w)

\* /\s*@\w+|param|return|description|example|author/.test(value)
HasDocstringPattern(value) ==
  \/ \E i \in 1..(Len(value) - 1) :
       value[i] = "@" /\ IsWordChar(value[i + 1])
  \/ \E w \in DocstringWords : Includes(value, w)

isDocstring(comment) ==
  IF comment.t = "Block"
  THEN LET isMultiline == Includes(comment.txt, <<"\n">>)
       IN  isMultiline \/ HasDocstringPattern(comment.txt)
  ELSE FALSE

RECURSIVE getCommentsBefore(_, _)
\* sourceCode.getCommentsBefore(node): the comments between the token before
\* the node and the node, in source order.
getCommentsBefore(doc, i) ==
  IF i <= 1 \/ ~IsComment(doc.items[i - 1]) THEN <<>>
  ELSE Append(getCommentsBefore(doc, i - 1), i - 1)

RECURSIVE ConsecutiveLineComments(_, _, _, _)
\* The backward loop of getDocstringComments over comments[1..i].
ConsecutiveLineComments(doc, comments, i, lastLine) ==
  IF i < 1 THEN <<>>
  ELSE LET comment == comments[i]
       IN  IF doc.items[comment].t # "Line"
           THEN ConsecutiveLineComments(doc, comments, i - 1, lastLine)
           ELSE IF lastLine = -1 \/ EndLine(doc, comment) + 1 = lastLine
           THEN Append(ConsecutiveLineComments(doc, comments, i - 1,
                                               StartLine(doc, comment)),
                       comment)
           ELSE <<>>

getDocstringComments(doc, node) ==
  LET comments == getCommentsBefore(doc, node)
      blocks == SelectSeq(comments, LAMBDA c : doc.items[c].t = "Block")
      lines == SelectSeq(comments, LAMBDA c : doc.items[c].t = "Line")
      lastBlockComment == blocks[Len(blocks)]
      consecutiveLineComments ==
        ConsecutiveLineComments(doc, comments, Len(comments), -1)
  IN  IF comments = <<>> THEN <<>>
      ELSE IF blocks # <<>>
      THEN IF isDocstring(doc.items[lastBlockComment])
           THEN <<lastBlockComment>> ELSE <<>>
      ELSE IF opts.treatCommentsAsDocstrings /\ lines # <<>>
              /\ \/ Len(consecutiveLineComments) >= 2
                 \/ /\ Len(consecutiveLineComments) = 1
                    /\ HasDocstringPattern(
                         doc.items[consecutiveLineComments[1]].txt)
      THEN consecutiveLineComments
      ELSE <<>>

checkDocstringPadding(doc, node) ==
  LET docstringComments == getDocstringComments(doc, node)
      lastComment == docstringComments[Len(docstringComments)]
      blankLines == StartLine(doc, node) - EndLine(doc, lastComment) - 1
  IN  IF docstringComments = <<>> THEN <<>>
      ELSE IF blankLines # opts.docstringPadding
      THEN << [messageId |-> "missingPaddingAfterDocstring",
               node |-> node,
               data |-> [expected |-> opts.docstringPadding,
                         actual |-> blankLines],
               fix |-> Fix(RangeEnd(doc, lastComment), RangeStart(doc, node),
                           Newlines(opts.docstringPadding + 1))] >>
      ELSE <<>>

RECURSIVE checkBlankLinesShortFix(_, _, _, _, _)
\* The loop with a slip in the fix: the line terminator that ends the
\* earlier sibling's line is not counted.
checkBlankLinesShortFix(doc, nodes, i, messageId, padding) ==
  IF i > Len(nodes) - 1 THEN <<>>
  ELSE LET currentNode == nodes[i]
           nextNode == nodes[i + 1]
           blankLines == getBlankLinesBetween(doc, currentNode, nextNode)
           rep == [messageId |-> messageId,
                   node |-> nextNode,
                   data |-> [expected |-> padding, actual |-> blankLines],
                   fix |-> Fix(RangeEnd(doc, currentNode),
                               RangeStart(doc, nextNode),
                               Newlines(padding))]
       IN  (IF blankLines # padding THEN <<rep>> ELSE <<>>)
           \o checkBlankLinesShortFix(doc, nodes, i + 1, messageId, padding)

RECURSIVE checkBlankLinesFrom(_, _, _, _, _)
\* The loop shared by checkRootLevelBlankLines and checkNestedBlankLines.
checkBlankLinesFrom(doc, nodes, i, messageId, padding) ==
  IF i > Len(nodes) - 1 THEN <<>>
  ELSE LET currentNode == nodes[i]
           nextNode == nodes[i + 1]
           blankLines == getBlankLinesBetween(doc, currentNode, nextNode)
           rep == [messageId |-> messageId,
                   node |-> nextNode,
                   data |-> [expected |-> padding, actual |-> blankLines],
                   fix |-> Fix(RangeEnd(doc, currentNode),
                               RangeStart(doc, nextNode),
                               Newlines(padding + 1))]
       IN  (IF blankLines # padding THEN <<rep>> ELSE <<>>)
           \o checkBlankLinesFrom(doc, nodes, i + 1, messageId, padding)

checkRootLevelBlankLines(doc, nodes) ==
  checkBlankLinesFrom(doc, nodes, 1, "missingPaddingBetweenRootBlocks",
                      opts.rootBlockPadding)

checkNestedBlankLines(doc, bodyNodes) ==
  checkBlankLinesFrom(doc, bodyNodes, 1, "missingPaddingBetweenNestedBlocks",
                      opts.nestedBlockPadding)

\* firstNode: the item holding the first token of the first declaration.
checkBeginningPadding(doc, firstNode) ==
  LET rangeEnd == RangeStart(doc, firstNode)
      \* sourceText.search(/\S/) over the text before the node
      contentStart == IF firstNode > 1 THEN RangeStart(doc, 1) ELSE -1
  IN  IF opts.enforceBeginningPadding /\ StartLine(doc, firstNode) > 1
      THEN << [messageId |-> "missingPaddingAtBeginning",
               node |-> firstNode,
               data |-> NoData,
               fix |-> IF contentStart # -1 THEN Fix(0, contentStart, <<>>)
                       ELSE Fix(0, rangeEnd, <<>>)] >>
      ELSE <<>>

\* lastNode: the item holding the last token of the last declaration.
checkEndPadding(doc, lastNode) ==
  LET blankLinesAtEnd == TotalLines(doc) - EndLine(doc, lastNode)
  IN  IF opts.enforceEndPadding /\ blankLinesAtEnd # opts.rootBlockPadding
      THEN << [messageId |-> "missingPaddingAtEnd",
               node |-> lastNode,
               data |-> [expected |-> opts.rootBlockPadding,
                         actual |-> blankLinesAtEnd],
               fix |-> Fix(RangeEnd(doc, lastNode), TextLength(doc),
                           Newlines(opts.rootBlockPadding))] >>
      ELSE <<>>

RECURSIVE DocstringEach(_, _, _)
\* body.forEach(childNode => checkDocstringPadding(childNode))
DocstringEach(doc, body, i) ==
  IF i > Len(body) THEN <<>>
  ELSE checkDocstringPadding(doc, body[i]) \o DocstringEach(doc, body, i + 1)

RECURSIVE DeclarationHandlers(_, _, _)
\* The FunctionDeclaration, ClassDeclaration and MethodDefinition handlers,
\* as the traversal reaches the children of the body.
DeclarationHandlers(doc, body, i) ==
  IF i > Len(body) THEN <<>>
  ELSE (IF doc.items[body[i]].t \in {"FunctionDeclaration",
                                     "ClassDeclaration", "MethodDefinition"}
        THEN checkDocstringPadding(doc, body[i]) ELSE <<>>)
       \o DeclarationHandlers(doc, body, i + 1)

\* All reports of one pass: the Program handler, then the handler of the
\* body's owner, then the handlers of the children.
BlockPaddingProgram(doc) ==
  LET body == Body(doc)
      last == Len(doc.items)
  IN  IF doc.parent = "Program"
      THEN IF body = <<>> THEN <<>>
           ELSE checkBeginningPadding(doc, body[1])
                \o checkEndPadding(doc, body[Len(body)])
                \o checkRootLevelBlankLines(doc, body)
                \o DocstringEach(doc, body, 1)
                \o DeclarationHandlers(doc, body, 1)
      ELSE checkBeginningPadding(doc, 1)
           \o checkEndPadding(doc, last)
           \o (IF Len(body) > 1
               THEN checkNestedBlankLines(doc, body)
                    \o (IF doc.parent = "SwitchStatement" THEN <<>>
                        ELSE DocstringEach(doc, body, 1))
               ELSE <<>>)
           \o DeclarationHandlers(doc, body, 1)

-----------------------------------------------------------------------------
(* Generated inputs of block-padding.                                      *)

Comment(t, h, value) == Item(t, FALSE, "", "", FALSE, h, value)

\* A block comment of two lines.
NoteComment == Comment("Block", 2, <<"n", "o", "\n", "t", "e">>)

\* The siblings a body of each kind is generated from: a one-line and a
\* two-line node.
SiblingShapes(parent) ==
  CASE parent = "SwitchStatement" ->
         { Statement("SwitchCase", TRUE, 1), Statement("SwitchCase", TRUE, 2) }
    [] parent = "ClassBody" ->
         { Statement("PropertyDefinition", TRUE, 1),
           Statement("MethodDefinition", FALSE, 2) }
    [] OTHER ->
         { Statement("ExpressionStatement", TRUE, 1),
           Statement("FunctionDeclaration", FALSE, 2) }

Parents == {"Program", "BlockStatement", "SwitchStatement", "ClassBody"}

\* A body of the given owner: the items with the given line terminators
\* before them, between the owner's brackets unless it is the Program.
BodyDoc(parent, shapes, pres) ==
  LET inner == [i \in 1..Len(shapes) |-> [shapes[i] EXCEPT !.pre = pres[i]]]
  IN  [items |-> IF parent = "Program" THEN inner
                 ELSE <<OpenBrace>> \o inner \o <<CloseBrace>>,
       post |-> 1,
       parent |-> parent]

\* Bodies of n items out of S.  An item may share the line of the item
\* before it, except after a line comment and at the start of a Program;
\* the first item of a bracketed body is on the line after the bracket.
BodyDocs(parent, S, n, maxBlank) ==
  { BodyDoc(parent, sp[1], sp[2]) :
      sp \in { q \in SeqsOfLen(S, n) \X SeqsOfLen(0..(maxBlank + 1), n) :
                 /\ n > 0 => q[2][1] = (IF parent = "Program" THEN 0 ELSE 1)
                 /\ \A i \in 2..n :
                      q[2][i] = 0 => q[1][i - 1].t # "Line" } }

\* The pieces the comment texts of the predicate's runs are put together
\* from: the words of the pattern in both cases, tags, a tag sign alone,
\* parts of a word, a plain word, white space.
TextPieces ==
  { <<"p", "a", "r", "a", "m">>,
    <<"P", "A", "R", "A", "M">>,
    <<"r", "e", "t", "u", "r", "n">>,
    <<"R", "e", "t", "u", "r", "n", "s">>,
    <<"d", "e", "s", "c", "r", "i", "p", "t", "i", "o", "n">>,
    <<"e", "x", "a", "m", "p", "l", "e">>,
    <<"a", "u", "t", "h", "o", "r">>,
    <<"A", "u", "t", "h", "o", "r">>,
    <<"@", "s", "e", "e">>,
    <<"@">>,
    <<"@", " ", "x">>,
    <<"p", "a", "r", "a">>,
    <<"m">>,
    <<"n", "o", "t", "e">>,
    <<" ">>,
    <<"\n">> }

RECURSIVE Concat(_)
Concat(pieces) ==
  IF pieces = <<>> THEN <<>> ELSE Head(pieces) \o Concat(Tail(pieces))

\* The comment values of up to MaxPieces pieces.
CommentTexts ==
  { Concat(ps) : ps \in UNION { SeqsOfLen(TextPieces, n)
                                  : n \in 1..MaxPieces } }

\* The comments the predicate is applied to: block comments of every text,
\* line comments of every text of one line.
Comments ==
  { Comment("Block",
            1 + Cardinality({i \in 1..Len(text) : text[i] = "\n"}), text)
      : text \in CommentTexts }
  \cup
  { Comment("Line", 1, text)
      : text \in { x \in CommentTexts : ~Includes(x, <<"\n">>) } }

\* The predicate on its own: one comment, classified once.
InitDocstring ==
  /\ rule = "isDocstring"
  /\ opts = PaddingDefaults
  /\ src \in Comments
  /\ reports = <<>>
  /\ phase = "parsed"
  /\ applied = <<>>
  /\ before = src
  /\ pass = 0

\* isDocstring(comment)
Classify ==
  /\ rule = "isDocstring"
  /\ phase = "parsed"
  /\ reports' = <<isDocstring(src)>>
  /\ phase' = "classified"
  /\ UNCHANGED <<rule, opts, src, applied, before, pass>>

\* A line comment.
RemarkComment == Comment("Line", 1, <<"c">>)

\* Whole files: a Program of up to MaxSiblings statements and comments, one
\* per line, with blank lines before the first of them and line terminators
\* after the last.
FileDocs(n) ==
  { [items |-> [i \in 1..n |-> [sp[1][i] EXCEPT !.pre = sp[2][i]]],
     post |-> sp[3],
     parent |-> "Program"] :
      sp \in { q \in SeqsOfLen({ Statement("ExpressionStatement", TRUE, 1),
                                 Statement("FunctionDeclaration", FALSE, 2),
                                 RemarkComment }, n)
                     \X SeqsOfLen(0..MaxSiblingBlank, n)
                     \X (0..(MaxSiblingBlank + 1)) :
                 \A i \in 2..n : q[2][i] >= 1 } }

\* The inputs of the checks at the two ends of the file: the two options
\* on and off, root counts of 0, 1 and 2.
InitFileEdges ==
  /\ rule = "block-padding"
  /\ opts \in { [PaddingDefaults EXCEPT !.rootBlockPadding = r,
                                        !.enforceBeginningPadding = b,
                                        !.enforceEndPadding = e] :
                  r \in 0..2, b \in BOOLEAN, e \in BOOLEAN }
  /\ src \in UNION { FileDocs(n) : n \in 1..MaxSiblings }
  /\ reports = <<>>
  /\ phase = "parsed"
  /\ applied = <<>>
  /\ before = src
  /\ pass = 0

\* A line comment with a tag, and a block comment of one line without one.
TagComment == Comment("Line", 1, <<"@", "s", "e", "e">>)

PlainComment == Comment("Block", 1, <<"n", "o", "t", "e">>)

\* Files of n function declarations and comments, each on the line after
\* the one before it or after one blank line.
CommentedDocs(n) ==
  { [items |-> [i \in 1..n |-> [sp[1][i] EXCEPT !.pre = sp[2][i]]],
     post |-> 1,
     parent |-> "Program"] :
      sp \in { q \in SeqsOfLen({ Statement("FunctionDeclaration", FALSE, 2),
                                 RemarkComment, TagComment, PlainComment }, n)
                     \X SeqsOfLen(0..2, n) :
                 q[2][1] = 0 /\ \A i \in 2..n : q[2][i] >= 1 } }

\* The inputs of the doc blocks made of line comments: files of up to
\* MaxSiblings + 1 declarations and comments, the option on and off.
InitLineComments ==
  /\ rule = "block-padding"
  /\ opts \in { [PaddingDefaults EXCEPT !.treatCommentsAsDocstrings = t] :
                  t \in BOOLEAN }
  /\ src \in UNION { CommentedDocs(n) : n \in 1..(MaxSiblings + 1) }
  /\ reports = <<>>
  /\ phase = "parsed"
  /\ applied = <<>>
  /\ before = src
  /\ pass = 0

\* The inputs of the sibling padding checks: bodies of every kind, of nodes
\* and multi-line block comments, under the default counts and under
\* counts of 0 and 2.
InitSiblingPadding ==
  /\ rule = "block-padding"
  /\ opts \in { PaddingDefaults,
                [PaddingDefaults EXCEPT !.rootBlockPadding = 0,
                                        !.nestedBlockPadding = 2] }
  /\ \E parent \in Parents :
       src \in UNION { BodyDocs(parent,
                                SiblingShapes(parent) \cup {NoteComment},
                                n, MaxSiblingBlank)
                         : n \in 1..MaxSiblings }
  /\ reports = <<>>
  /\ phase = "parsed"
  /\ applied = <<>>
  /\ before = src
  /\ pass = 0

-----------------------------------------------------------------------------
(* aligned-assignments                                                     *)
(*                                                                         *)
(* The text of a run is the body of one scope (a Program, or a block at    *)
(* doc.indent), every line one declaration with one declarator; a          *)
(* declarator is named by the number of its line.                          *)

AlignmentDefaults ==
  [alignComments |-> FALSE, alignLiterals |-> FALSE, blockSize |-> 2,
   ignoreAdjacent |-> TRUE, ignoreIfAssignmentsNotInBlock |-> TRUE,
   alignTypes |-> FALSE, ignoreTypesMismatch |-> TRUE]

\* null, where the code returns a column or null
Null == -1

\* declarator.init, declarator.id.typeAnnotation
HasInit(doc, d) == IndexOf(doc.lines[d].decl, "=") # 0

HasTypeAnnotation(doc, d) == IndexOf(doc.lines[d].decl, ":") # 0

getEqualsColumn(doc, d) ==
  LET segs == doc.lines[d].decl
      equalsToken == IndexOf(segs, "=")
  IN  IF equalsToken # 0 THEN DeclColumn(doc, d) + OffsetOf(segs, equalsToken)
      ELSE Null

getTypeColonColumn(doc, d) ==
  LET segs == doc.lines[d].decl
      colonToken == IndexOf(segs, ":")
  IN  IF colonToken # 0 THEN DeclColumn(doc, d) + OffsetOf(segs, colonToken)
      ELSE Null

\* areNodesAdjacent asking only that the second node starts below the first.
areNodesInOrder(doc, node1, node2) ==
  DeclLine(doc, node2) > DeclLine(doc, node1)

areNodesAdjacent(doc, node1, node2) ==
  DeclLine(doc, node2) = DeclLine(doc, node1) + 1

\* haveSameKind comparing the second declarator only with the first.
haveSameKindOfFirstTwo(doc, declarations) ==
  \/ Len(declarations) < 2
  \/ doc.lines[declarations[2]].kind = doc.lines[declarations[1]].kind

haveSameKind(doc, declarations) ==
  \/ declarations = <<>>
  \/ \A k \in 1..Len(declarations) :
       doc.lines[declarations[k]].kind = doc.lines[declarations[1]].kind

allHaveTypes(doc, declarations) ==
  \A k \in 1..Len(declarations) : HasTypeAnnotation(doc, declarations[k])

anyHaveTypes(doc, declarations) ==
  \E k \in 1..Len(declarations) : HasTypeAnnotation(doc, declarations[k])

\* Math.max over a non-empty set of columns
MaxOf(S) == CHOOSE m \in S : \A x \in S : x <= m

getMaxEqualsColumn(doc, declarations) ==
  MaxOf({ getEqualsColumn(doc, declarations[k]) : k \in 1..Len(declarations) })

getMaxTypeColonColumn(doc, declarations) ==
  LET columns == { getTypeColonColumn(doc, declarations[k]) :
                     k \in 1..Len(declarations) } \ {Null}
  IN  IF columns # {} THEN MaxOf(columns) ELSE Null

\* sourceCode.getText(declarator.id): the identifier with its annotation
idText(doc, d) ==
  LET segs == doc.lines[d].decl
  IN  IF HasTypeAnnotation(doc, d) THEN SubSeq(segs, 1, IndexOf(segs, "type"))
      ELSE SubSeq(segs, 1, 1)

\* sourceCode.getText(declarator.id.typeAnnotation)
typeText(doc, d) ==
  LET segs == doc.lines[d].decl
  IN  IF HasTypeAnnotation(doc, d)
      THEN SubSeq(segs, IndexOf(segs, ":"), IndexOf(segs, "type"))
      ELSE <<>>

\* sourceCode.getText(declarator.init)
initText(doc, d) ==
  LET segs == doc.lines[d].decl
  IN  IF HasInit(doc, d) THEN SubSeq(segs, IndexOf(segs, "init"), Len(segs))
      ELSE <<>>

\* The replacement text of a declarator; threw when String.prototype.repeat
\* is called with a negative count (a RangeError).
getFixedDeclaration(doc, d, targetEqualsColumn, targetTypeColumn) ==
  LET originalText == doc.lines[d].decl
      equalsColumn == getEqualsColumn(doc, d)
      hasType == HasTypeAnnotation(doc, d)
      typeColon == getTypeColonColumn(doc, d)
      result == idText(doc, d)
      typeColonPadding ==
        targetTypeColumn - (SegsLength(idText(doc, d)) + SegsLength(result))
      withType == IF hasType /\ targetTypeColumn # Null
                  THEN result \o <<Seg(" ", typeColonPadding)>> \o typeText(doc, d)
                  ELSE result
      currentEndPos == IF hasType THEN typeColon + SegsLength(typeText(doc, d))
                       ELSE SegsLength(idText(doc, d))
      equalsPadding == targetEqualsColumn - currentEndPos
  IN  IF equalsColumn = Null \/ equalsColumn = 0
      THEN [threw |-> FALSE, text |-> originalText]
      ELSE IF (hasType /\ targetTypeColumn # Null /\ typeColonPadding < 0)
              \/ equalsPadding < 0
      THEN [threw |-> TRUE, text |-> <<>>]
      ELSE [threw |-> FALSE,
            text |-> withType
                     \o <<Seg(" ", equalsPadding), Seg("=", 1), Seg(" ", 1)>>
                     \o initText(doc, d)]

\* The reports of checkAlignment for one declarator of the run: the fix is
\* computed when the report is made.
AlignmentReports(doc, d, maxEqualsColumn, maxTypeColonColumn) ==
  LET equalsColumn == getEqualsColumn(doc, d)
      typeColumn == getTypeColonColumn(doc, d)
      fixed == getFixedDeclaration(doc, d, maxEqualsColumn, maxTypeColonColumn)
      rep(id) == [messageId |-> id,
                  node |-> d,
                  data |-> NoData,
                  fix |-> Fix(DeclStart(doc, d), DeclEnd(doc, d), fixed.text),
                  threw |-> fixed.threw]
  IN  (IF equalsColumn # Null /\ equalsColumn # maxEqualsColumn
       THEN <<rep("misalignedAssignment")>> ELSE <<>>)
      \o (IF opts.alignTypes /\ maxTypeColonColumn # Null
             /\ typeColumn # Null /\ typeColumn # maxTypeColonColumn
          THEN <<rep("misalignedTypes")>> ELSE <<>>)

RECURSIVE AlignmentEach(_, _, _, _, _)
\* declarations.forEach of checkAlignment
AlignmentEach(doc, declarations, k, maxEqualsColumn, maxTypeColonColumn) ==
  IF k > Len(declarations) THEN <<>>
  ELSE AlignmentReports(doc, declarations[k], maxEqualsColumn,
                        maxTypeColonColumn)
       \o AlignmentEach(doc, declarations, k + 1, maxEqualsColumn,
                        maxTypeColonColumn)

checkAlignment(doc, declarations) ==
  LET maxEqualsColumn == getMaxEqualsColumn(doc, declarations)
      maxTypeColonColumn ==
        IF opts.alignTypes /\ anyHaveTypes(doc, declarations)
           /\ ~(opts.ignoreTypesMismatch /\ ~allHaveTypes(doc, declarations))
        THEN getMaxTypeColonColumn(doc, declarations)
        ELSE Null
  IN  IF Len(declarations) < opts.blockSize THEN <<>>
      ELSE IF opts.ignoreIfAssignmentsNotInBlock
              /\ ~haveSameKind(doc, declarations)
      THEN <<>>
      ELSE AlignmentEach(doc, declarations, 1, maxEqualsColumn,
                         maxTypeColonColumn)

RECURSIVE AdjacentGroupsFrom(_, _, _, _)
\* The loop of processDeclarationGroup that splits the declarators into
\* runs of adjacent lines, keeping the runs of at least blockSize.
AdjacentGroupsFrom(doc, decls, i, currentGroup) ==
  LET kept == IF Len(currentGroup) >= opts.blockSize THEN <<currentGroup>>
              ELSE <<>>
  IN  IF i > Len(decls) THEN kept
      ELSE IF areNodesAdjacent(doc, decls[i - 1], decls[i])
      THEN AdjacentGroupsFrom(doc, decls, i + 1, Append(currentGroup, decls[i]))
      ELSE kept \o AdjacentGroupsFrom(doc, decls, i + 1, <<decls[i]>>)

RECURSIVE CheckAlignmentEach(_, _)
CheckAlignmentEach(doc, groups) ==
  IF groups = <<>> THEN <<>>
  ELSE checkAlignment(doc, Head(groups)) \o CheckAlignmentEach(doc, Tail(groups))

processDeclarationGroup(doc, declarations) ==
  LET declarationsWithInits ==
        SelectSeq(declarations, LAMBDA d : HasInit(doc, d))
  IN  IF declarations = <<>> THEN <<>>
      ELSE IF Len(declarationsWithInits) < opts.blockSize THEN <<>>
      ELSE IF opts.ignoreAdjacent
      THEN CheckAlignmentEach(doc,
             AdjacentGroupsFrom(doc, declarationsWithInits, 2,
                                <<declarationsWithInits[1]>>))
      ELSE checkAlignment(doc, declarationsWithInits)

\* The Program / BlockStatement handler: all declarators of the body.
processBlockVariables(doc) ==
  processDeclarationGroup(doc, [i \in 1..Len(doc.lines) |-> i])

-----------------------------------------------------------------------------
(* Generated inputs of aligned-assignments.                                *)

\* id = init, with n characters of identifier and e spaces before the `=`
Untyped(n, e) ==
  << Seg("id", n), Seg(" ", e), Seg("=", 1), Seg(" ", 1), Seg("init", 1) >>

\* id: T = init, with c spaces before the colon
Typed(n, c, e) ==
  Normalize(<< Seg("id", n), Seg(" ", c), Seg(":", 1), Seg(" ", 1),
               Seg("type", 1), Seg(" ", e), Seg("=", 1), Seg(" ", 1),
               Seg("init", 1) >>)

DeclaratorShapes ==
  { Untyped(1, 1), Untyped(1, 2), Untyped(MaxIdLength, 1),
    Typed(1, 0, 1), Typed(1, 1, 1),
    <<Seg("id", 1)>> }

DeclarationLines ==
  [pre : 0..2, kind : {"const", "let"}, decl : DeclaratorShapes]

\* Program bodies of n declarations: the first on the first line, each
\* later one on the next line or after one blank line.
DeclarationDocs(L, n) ==
  { [lines |-> ls, indent |-> 0] :
      ls \in { q \in SeqsOfLen(L, n) :
                 q[1].pre = 0 /\ \A i \in 2..n : q[i].pre >= 1 } }

\* The option sets of the generated runs: the defaults, and the defaults
\* with type alignment switched on.
AlignmentConfigs ==
  { AlignmentDefaults,
    [AlignmentDefaults EXCEPT !.alignTypes = TRUE] }

\* Lines of the keyword check: declarations with const and let, the
\* operator one or two columns after the identifier.
KeywordLines ==
  [pre : 0..2, kind : {"const", "let"},
   decl : {Untyped(1, 1), Untyped(1, 2)}]

KeywordConfigs ==
  { AlignmentDefaults,
    [AlignmentDefaults EXCEPT !.ignoreIfAssignmentsNotInBlock = FALSE] }

\* The inputs of the keyword check: every body of up to MaxDeclarations
\* declarations, with the option on and off.
InitKeywords ==
  /\ rule = "aligned-assignments"
  /\ opts \in KeywordConfigs
  /\ src \in UNION { DeclarationDocs(KeywordLines, n)
                       : n \in 1..MaxDeclarations }
  /\ reports = <<>>
  /\ phase = "parsed"
  /\ applied = <<>>
  /\ before = src
  /\ pass = 0

\* Lines of the run splitting: initialised declarators of const and let
\* declarations, the operator one or two columns after the identifier, and
\* let declarations without an initialiser.
RunLines ==
  [pre : 0..2, kind : {"const", "let"},
   decl : {Untyped(1, 1), Untyped(1, 2)}]
  \cup [pre : 0..2, kind : {"let"}, decl : {<<Seg("id", 1)>>}]

\* blockSize at its default and one above it
RunConfigs ==
  { AlignmentDefaults,
    [AlignmentDefaults EXCEPT !.blockSize = 3] }

\* The inputs of the run splitting: every body of up to MaxDeclarations
\* declarations, with runs of two and of three required.
InitRuns ==
  /\ rule = "aligned-assignments"
  /\ opts \in RunConfigs
  /\ src \in UNION { DeclarationDocs(RunLines, n)
                       : n \in 1..MaxDeclarations }
  /\ reports = <<>>
  /\ phase = "parsed"
  /\ applied = <<>>
  /\ before = src
  /\ pass = 0

InitAlignment ==
  /\ rule = "aligned-assignments"
  /\ opts \in AlignmentConfigs
  /\ src \in UNION { DeclarationDocs(DeclarationLines, n)
                       : n \in 1..MaxDeclarations }
  /\ reports = <<>>
  /\ phase = "parsed"
  /\ applied = <<>>
  /\ before = src
  /\ pass = 0

-----------------------------------------------------------------------------
(* multiline-format                                                        *)

FormatDefaults ==
  [allowSingleLine |-> TRUE, multilineStyle |-> "consistent", minItems |-> 3,
   maxLineLength |-> 80, bracketStyle |-> "same-line", indentation |-> 2,
   trailingComma |-> "always", emptyLineBetweenGroups |-> FALSE,
   consistentSpacing |-> TRUE, objectAlignment |-> "none"]

isMultiline(doc, node) ==
  LitLine(doc.text, node.open) # LitLine(doc.text, node.close)

getExpectedIndentation(doc, node) ==
  LitColumn(doc, node.open) + opts.indentation

\* Length of segments i..e after .replace(/\n\s*/g, ' '): a line
\* terminator and the white space after it count as one character.
SingleLineLength(segs, i, e) ==
  LET inBreak(j) == \E b \in i..(j - 1) :
                      segs[b].c = "\n" /\ \A m \in b..j : IsSpace(segs[m])
  IN  SegsLength([k \in 1..(e - i + 1) |->
        LET j == i + k - 1
        IN  Seg(segs[j].c,
                IF IsSpace(segs[j]) /\ inBreak(j) THEN 0
                ELSE IF segs[j].c = "\n" THEN 1
                ELSE segs[j].n)])

wouldExceedMaxLineLength(doc, node) ==
  LitColumn(doc, node.open)
    + SingleLineLength(doc.text, node.open, node.close)
  > opts.maxLineLength

allElementsOnSameLine(doc, elements) ==
  \/ elements = <<>>
  \/ \A k \in 1..Len(elements) :
       LitLine(doc.text, elements[k].from) = LitLine(doc.text, elements[1].from)

allElementsOnSeparateLines(doc, node, elements) ==
  IF elements = <<>> THEN TRUE
  ELSE IF opts.bracketStyle = "new-line"
          /\ LitLine(doc.text, node.open) = LitLine(doc.text, elements[1].from)
  THEN FALSE
  ELSE IF \E i \in 1..(Len(elements) - 1) :
            LitLine(doc.text, elements[i].to)
              = LitLine(doc.text, elements[i + 1].from)
  THEN FALSE
  ELSE LitLine(doc.text, elements[Len(elements)].to)
         # LitLine(doc.text, node.close)

\* prop.type === "Property"
IsProperty(segs, el) == segs[el.from].c = "key"

\* The token before / after the token at segment j.
TokenBeforeSeg(segs, j) ==
  CHOOSE k \in 1..(j - 1) :
    ~IsSpace(segs[k]) /\ \A m \in (k + 1)..(j - 1) : IsSpace(segs[m])

TokenAfterSeg(segs, j) ==
  CHOOSE k \in (j + 1)..Len(segs) :
    ~IsSpace(segs[k]) /\ \A m \in (j + 1)..(k - 1) : IsSpace(segs[m])

ColonSpacing(segs, el) ==
  LET colon == ColonOf(segs, el)
  IN  [beforeSpace |->
         LitStart(segs, colon) - LitEnd(segs, TokenBeforeSeg(segs, colon)),
       afterSpace |->
         LitStart(segs, TokenAfterSeg(segs, colon)) - LitEnd(segs, colon)]

hasConsistentColonSpacing(doc, node) ==
  LET properties == SelectSeq(node.elements,
                              LAMBDA el : IsProperty(doc.text, el))
      spacings == [k \in 1..Len(properties) |->
                     ColonSpacing(doc.text, properties[k])]
  IN  IF node.type # "ObjectExpression" \/ node.elements = <<>> THEN TRUE
      ELSE IF Len(properties) <= 1 THEN TRUE
      ELSE \A k \in 1..Len(spacings) : spacings[k] = spacings[1]

RECURSIVE JoinItems(_, _, _)
\* elements.map(text).join(", ")
JoinItems(segs, elements, k) ==
  IF k > Len(elements) THEN <<>>
  ELSE (IF k > 1 THEN <<Seg(",", 1), Seg(" ", 1)>> ELSE <<>>)
       \o SubSeq(segs, elements[k].from, elements[k].to)
       \o JoinItems(segs, elements, k + 1)

\* The text of one element in the multiline format.
FixedElementText(doc, node, el, colonPos) ==
  LET segs == doc.text
  IN  IF node.type = "ObjectExpression" /\ IsProperty(segs, el)
         /\ opts.objectAlignment = "colon"
      THEN <<segs[el.from], Seg(" ", colonPos - segs[el.from].n)>>
           \o SubSeq(segs, ColonOf(segs, el), el.to)
      ELSE SubSeq(segs, el.from, el.to)

RECURSIVE FixedLines(_, _, _, _, _, _)
\* elements.forEach of the multiline format
FixedLines(doc, node, elements, k, colonPos, itemIndent) ==
  IF k > Len(elements) THEN <<>>
  ELSE <<itemIndent>>
       \o FixedElementText(doc, node, elements[k], colonPos)
       \o (IF k < Len(elements) \/ opts.trailingComma = "always"
           THEN <<Seg(",", 1)>> ELSE <<>>)
       \o <<Seg("\n", 1)>>
       \o FixedLines(doc, node, elements, k + 1, colonPos, itemIndent)

createFixedText(doc, node, elements) ==
  LET isObj == node.type = "ObjectExpression"
      openingBracket == Seg(IF isObj THEN "{" ELSE "[", 1)
      closingBracket == Seg(IF isObj THEN "}" ELSE "]", 1)
      nodeIndent == LitColumn(doc, node.open)
      indent == Seg(" ", nodeIndent)
      itemIndent == Seg(" ", nodeIndent + opts.indentation)
      fixedText == IF opts.bracketStyle = "same-line" THEN <<openingBracket>>
                   ELSE <<openingBracket, Seg("\n", 1), itemIndent>>
      keyLengths == { doc.text[elements[k].from].n :
                        k \in { j \in 1..Len(elements) :
                                  IsProperty(doc.text, elements[j]) } }
      colonPos == IF isObj /\ opts.objectAlignment = "colon"
                  THEN MaxOf(keyLengths) ELSE 0
  IN  MergeSpace(
        IF elements = <<>> THEN fixedText \o <<closingBracket>>
        ELSE IF allElementsOnSameLine(doc, elements) /\ opts.allowSingleLine
                /\ Len(elements) < opts.minItems
                /\ ~wouldExceedMaxLineLength(doc, node)
        THEN fixedText \o <<Seg(" ", 1)>> \o JoinItems(doc.text, elements, 1)
             \o <<Seg(" ", 1), closingBracket>>
        ELSE fixedText \o <<Seg("\n", 1)>>
             \o FixedLines(doc, node, elements, 1, colonPos, itemIndent)
             \o <<indent, closingBracket>>)

\* A report of the rule at a literal.
FormatReport(node, messageId, data, fix) ==
  << [messageId |-> messageId, node |-> node.open, data |-> data,
      fix |-> fix] >>

\* fixer.replaceText(node, createFixedText(node, elements))
ReplaceLiteral(doc, node) ==
  Fix(LitStart(doc.text, node.open), LitEnd(doc.text, node.close),
      createFixedText(doc, node, node.elements))

\* The shared checks with the trailing separator looked at first.
MultilineChecksTrailingFirst(doc, node) ==
  LET segs == doc.text
      elements == node.elements
      expectedIndent == getExpectedIndentation(doc, node)
      itemsWithWrongIndent ==
        SelectSeq(elements, LAMBDA el :
          /\ LitLine(segs, el.from) # LitLine(segs, node.open)
          /\ LitColumn(doc, el.from) # expectedIndent)
      allSeparate == allElementsOnSeparateLines(doc, node, elements)
      lastElem == elements[Len(elements)]
      tokenAfterLastElem == TokenAfterSeg(segs, lastElem.to)
  IN  IF elements # <<>> /\ opts.trailingComma = "always"
         /\ segs[tokenAfterLastElem].c # ","
      THEN FormatReport(node, "missingTrailingComma", NoData,
                        Fix(LitEnd(segs, lastElem.to), LitEnd(segs, lastElem.to),
                            <<Seg(",", 1)>>))
      ELSE IF elements # <<>> /\ opts.trailingComma = "never"
              /\ segs[tokenAfterLastElem].c = ","
      THEN FormatReport(node, "unexpectedTrailingComma", NoData,
                        Fix(LitEnd(segs, lastElem.to),
                            LitEnd(segs, tokenAfterLastElem), <<>>))
      ELSE IF itemsWithWrongIndent # <<>>
      THEN FormatReport(node, "inconsistentIndentation",
                        [spaces |-> opts.indentation],
                        ReplaceLiteral(doc, node))
      ELSE IF ~allSeparate /\ opts.multilineStyle = "always"
      THEN FormatReport(node, "inconsistentNewlines", [style |-> "separate"],
                        ReplaceLiteral(doc, node))
      ELSE <<>>

\* The checks both kinds of literal share once the literal is multiline:
\* indentation, newlines, trailing separator; <<>> when all pass.
MultilineChecks(doc, node) ==
  LET segs == doc.text
      elements == node.elements
      expectedIndent == getExpectedIndentation(doc, node)
      itemsWithWrongIndent ==
        SelectSeq(elements, LAMBDA el :
          /\ LitLine(segs, el.from) # LitLine(segs, node.open)
          /\ LitColumn(doc, el.from) # expectedIndent)
      allSeparate == allElementsOnSeparateLines(doc, node, elements)
      lastElem == elements[Len(elements)]
      tokenAfterLastElem == TokenAfterSeg(segs, lastElem.to)
  IN  IF itemsWithWrongIndent # <<>>
      THEN FormatReport(node, "inconsistentIndentation",
                        [spaces |-> opts.indentation],
                        ReplaceLiteral(doc, node))
      ELSE IF ~allSeparate /\ opts.multilineStyle = "always"
      THEN FormatReport(node, "inconsistentNewlines", [style |-> "separate"],
                        ReplaceLiteral(doc, node))
      ELSE IF elements = <<>> THEN <<>>
      ELSE IF opts.trailingComma = "always" /\ segs[tokenAfterLastElem].c # ","
      THEN FormatReport(node, "missingTrailingComma", NoData,
                        Fix(LitEnd(segs, lastElem.to), LitEnd(segs, lastElem.to),
                            <<Seg(",", 1)>>))
      ELSE IF opts.trailingComma = "never" /\ segs[tokenAfterLastElem].c = ","
      THEN FormatReport(node, "unexpectedTrailingComma", NoData,
                        Fix(LitEnd(segs, lastElem.to),
                            LitEnd(segs, tokenAfterLastElem), <<>>))
      ELSE <<>>

\* The colon alignment check of a multiline object.
ColonAlignmentCheck(doc, node) ==
  LET segs == doc.text
      propsWithKeys == SelectSeq(node.elements, LAMBDA el : IsProperty(segs, el))
      columns == [k \in 1..Len(propsWithKeys) |->
                    LitColumn(doc, ColonOf(segs, propsWithKeys[k]))]
      colonPositions == SelectSeq(columns, LAMBDA c : c # 0)
  IN  IF Len(propsWithKeys) <= 1 THEN <<>>
      ELSE IF Len(colonPositions) > 1
              /\ \E k \in 1..Len(colonPositions) :
                   colonPositions[k] # colonPositions[1]
      THEN FormatReport(node, "incorrectColonAlignment", NoData,
                        ReplaceLiteral(doc, node))
      ELSE <<>>

processObjectExpression(doc, node) ==
  LET shouldBeMultiline ==
        \/ Len(node.elements) >= opts.minItems
        \/ wouldExceedMaxLineLength(doc, node)
        \/ opts.multilineStyle = "always"
      isNodeMultiline == isMultiline(doc, node)
  IN  IF node.elements = <<>> THEN <<>>
      ELSE IF shouldBeMultiline /\ ~isNodeMultiline
              /\ opts.multilineStyle # "never"
      THEN FormatReport(node, "singleLineToMultiline",
                        [count |-> Len(node.elements)],
                        ReplaceLiteral(doc, node))
      ELSE IF ~isNodeMultiline THEN <<>>
      ELSE IF MultilineChecks(doc, node) # <<>>
      THEN MultilineChecks(doc, node)
      ELSE IF opts.consistentSpacing /\ ~hasConsistentColonSpacing(doc, node)
      THEN FormatReport(node, "inconsistentSpacing", NoData,
                        ReplaceLiteral(doc, node))
      ELSE IF opts.objectAlignment = "colon" /\ Len(node.elements) > 1
      THEN ColonAlignmentCheck(doc, node)
      ELSE <<>>

\* processArrayExpression with the threshold one item later: multiline is
\* asked for with more than minItems items.
processArrayExpressionAbove(doc, node) ==
  LET shouldBeMultiline ==
        \/ node.length > opts.minItems
        \/ wouldExceedMaxLineLength(doc, node)
        \/ opts.multilineStyle = "always"
      isNodeMultiline == isMultiline(doc, node)
  IN  IF node.length = 0 THEN <<>>
      ELSE IF shouldBeMultiline /\ ~isNodeMultiline
              /\ opts.multilineStyle # "never"
      THEN FormatReport(node, "singleLineToMultiline",
                        [count |-> node.length],
                        ReplaceLiteral(doc, node))
      ELSE IF ~isNodeMultiline THEN <<>>
      ELSE MultilineChecks(doc, node)

processArrayExpression(doc, node) ==
  LET shouldBeMultiline ==
        \/ node.length >= opts.minItems
        \/ wouldExceedMaxLineLength(doc, node)
        \/ opts.multilineStyle = "always"
      isNodeMultiline == isMultiline(doc, node)
  IN  IF node.length = 0 THEN <<>>
      ELSE IF shouldBeMultiline /\ ~isNodeMultiline
              /\ opts.multilineStyle # "never"
      THEN FormatReport(node, "singleLineToMultiline",
                        [count |-> node.length],
                        ReplaceLiteral(doc, node))
      ELSE IF ~isNodeMultiline THEN <<>>
      ELSE MultilineChecks(doc, node)

RECURSIVE FormatEach(_, _, _)
\* The ObjectExpression and ArrayExpression handlers over the literals of
\* the text.
FormatEach(doc, nodes, k) ==
  IF k > Len(nodes) THEN <<>>
  ELSE (IF nodes[k].type = "ObjectExpression"
        THEN processObjectExpression(doc, nodes[k])
        ELSE processArrayExpression(doc, nodes[k]))
       \o FormatEach(doc, nodes, k + 1)

FormatProgram(doc) == FormatEach(doc, LiteralNodes(doc), 1)

-----------------------------------------------------------------------------
(* Generated inputs of multiline-format.                                   *)

\* key: value with k characters of key, b spaces before and a after the
\* colon, and v characters of value
PropertyText(k, b, a, v) ==
  MergeSpace(<< Seg("key", k), Seg(" ", b), Seg(":", 1), Seg(" ", a),
                Seg("val", v) >>)

RECURSIVE JoinTexts(_)
\* The texts separated by ", "
JoinTexts(texts) ==
  IF texts = <<>> THEN <<>>
  ELSE Head(texts)
       \o (IF Len(texts) > 1 THEN <<Seg(",", 1), Seg(" ", 1)>> ELSE <<>>)
       \o JoinTexts(Tail(texts))

\* A literal written on one line.
ObjectText(texts) == <<Seg("{", 1)>> \o JoinTexts(texts) \o <<Seg("}", 1)>>

ArrayText(texts) == <<Seg("[", 1)>> \o JoinTexts(texts) \o <<Seg("]", 1)>>

PropertyShapes ==
  { PropertyText(1, 0, 1, 1), PropertyText(2, 1, 1, 1),
    PropertyText(1, 0, 1, LongValue) }

ElementShapes ==
  { <<Seg("val", 1)>>, <<Seg("val", LongValue)>>,
    ArrayText(<< <<Seg("val", 1)>>, <<Seg("val", 1)>>, <<Seg("val", 1)>> >>) }

\* One-line object and array literals of up to MaxElements items, at the
\* start of the line or after a few characters.
SingleLineDocs ==
  UNION { { [prefix |-> pre, text |-> ObjectText(ts)] :
              ts \in SeqsOfLen(PropertyShapes, n), pre \in {0, 4} }
          \cup
          { [prefix |-> pre, text |-> ArrayText(ts)] :
              ts \in SeqsOfLen(ElementShapes, n), pre \in {0, 4} }
          : n \in 1..MaxElements }

\* The option sets of the generated runs: every combination of the options
\* that decide between one line and several.
FormatConfigs ==
  { [FormatDefaults EXCEPT !.minItems = m, !.multilineStyle = st,
                           !.bracketStyle = br, !.allowSingleLine = al,
                           !.maxLineLength = ml] :
      m \in {2, 3}, st \in {"consistent", "always"},
      br \in {"same-line", "new-line"}, al \in BOOLEAN, ml \in {40, 80} }

InitCollections ==
  /\ rule = "multiline-format"
  /\ opts \in FormatConfigs
  /\ src \in SingleLineDocs
  /\ reports = <<>>
  /\ phase = "parsed"
  /\ applied = <<>>
  /\ before = src
  /\ pass = 0

\* The runs of the threshold: multilineStyle "consistent", the other
\* options at their defaults but for minItems; one long value fits the
\* line, two do not.
ThresholdConfigs ==
  { [FormatDefaults EXCEPT !.minItems = m] : m \in {2, 3} }

InitThreshold ==
  /\ rule = "multiline-format"
  /\ opts \in ThresholdConfigs
  /\ src \in { doc \in SingleLineDocs : doc.prefix = 0 }
  /\ reports = <<>>
  /\ phase = "parsed"
  /\ applied = <<>>
  /\ before = src
  /\ pass = 0

RECURSIVE JoinLines(_, _)
\* The texts one per line, each after indent spaces, separated by ","
JoinLines(texts, indent) ==
  IF texts = <<>> THEN <<>>
  ELSE <<Seg(" ", indent)>> \o Head(texts)
       \o (IF Len(texts) > 1 THEN <<Seg(",", 1), Seg("\n", 1)>> ELSE <<>>)
       \o JoinLines(Tail(texts), indent)

\* A literal written over several lines, the opening bracket at column
\* column: one item per line at column + 2, then tail, then the closing
\* bracket on a line of its own.
MultilineText(open, close, texts, column, tail) ==
  MergeSpace(<<Seg(open, 1), Seg("\n", 1)>>
             \o JoinLines(texts, column + 2)
             \o tail
             \o <<Seg("\n", 1), Seg(" ", column), Seg(close, 1)>>)

\* What follows the last item: nothing, a separator, a separator after a
\* space; and in a sequence literal a separator and a hole on the next line.
ObjectTails == { <<>>, <<Seg(",", 1)>>, <<Seg(" ", 1), Seg(",", 1)>> }

ArrayTails(column) ==
  ObjectTails
    \cup { <<Seg(",", 1), Seg("\n", 1), Seg(" ", column + 2), Seg(",", 1)>> }

\* Multiline object and array literals of up to MaxElements items, with
\* and without a separator after the last item.
MultilineDocs ==
  UNION { { [prefix |-> pre,
             text |-> MultilineText("{", "}", ts, pre, tail)] :
              ts \in SeqsOfLen({ PropertyText(1, 0, 1, 1),
                                 PropertyText(2, 0, 1, 1) }, n),
              pre \in {0, 4}, tail \in ObjectTails }
          \cup
          UNION { { [prefix |-> pre,
                     text |-> MultilineText("[", "]", ts, pre, tail)] :
                      ts \in SeqsOfLen({ <<Seg("val", 1)>>,
                                         ArrayText(<< <<Seg("val", 1)>> >>) },
                                       n),
                      tail \in ArrayTails(pre) } : pre \in {0, 4} }
          : n \in 1..MaxElements }

\* The runs of the trailing separator: both settings of trailingComma under
\* both multiline styles.
TrailingConfigs ==
  { [FormatDefaults EXCEPT !.trailingComma = tc, !.multilineStyle = st] :
      tc \in {"always", "never"}, st \in {"consistent", "always"} }

InitTrailing ==
  /\ rule = "multiline-format"
  /\ opts \in TrailingConfigs
  /\ src \in MultilineDocs
  /\ reports = <<>>
  /\ phase = "parsed"
  /\ applied = <<>>
  /\ before = src
  /\ pass = 0

RECURSIVE LayoutItems(_, _, _)
\* The entries from the k-th on, each after its gap: 0 puts it one space
\* after what is before it on the same line, c > 0 on a new line at column
\* c; a separator between two entries.
LayoutItems(texts, gaps, k) ==
  IF k > Len(texts) THEN <<>>
  ELSE (IF k > 1 THEN <<Seg(",", 1)>> ELSE <<>>)
       \o (IF gaps[k] = 0 THEN <<Seg(" ", 1)>>
           ELSE <<Seg("\n", 1), Seg(" ", gaps[k])>>)
       \o texts[k]
       \o LayoutItems(texts, gaps, k + 1)

\* A literal at the start of a line, closed on a line of its own.
LayoutText(open, close, texts, gaps, tail) ==
  MergeSpace(<<Seg(open, 1)>> \o LayoutItems(texts, gaps, 1) \o tail
             \o <<Seg("\n", 1), Seg(close, 1)>>)

\* Multiline literals of up to MaxEntries entries that fail the checks of
\* the layout in every combination: an entry at the expected column, one
\* column further, or on the line of what is before it; keys of one and two
\* characters, no space or one before the colon; values and one-line
\* literals as the entries of a sequence; with and without a separator
\* after the last entry.
LayoutDocs ==
  UNION { { [prefix |-> 0, text |-> LayoutText("{", "}", ts, gs, tail)] :
              ts \in SeqsOfLen({ PropertyText(1, 0, 1, 1),
                                 PropertyText(2, 0, 1, 1),
                                 PropertyText(1, 1, 1, 1) }, n),
              gs \in SeqsOfLen({0, 2, 3}, n),
              tail \in { <<>>, <<Seg(",", 1)>> } }
          \cup
          { [prefix |-> 0, text |-> LayoutText("[", "]", ts, gs, tail)] :
              ts \in SeqsOfLen({ <<Seg("val", 1)>>,
                                 ArrayText(<< <<Seg("val", 1)>> >>) }, n),
              gs \in SeqsOfLen({0, 2, 3}, n),
              tail \in { <<>>, <<Seg(",", 1)>> } }
          : n \in 1..MaxEntries }

\* The runs of the layout checks: the defaults, the defaults with colon
\* alignment, and the defaults with separate lines asked for and no
\* separator after the last entry.
LayoutConfigs ==
  { FormatDefaults,
    [FormatDefaults EXCEPT !.objectAlignment = "colon"],
    [FormatDefaults EXCEPT !.multilineStyle = "always",
                           !.trailingComma = "never"] }

InitLayout ==
  /\ rule = "multiline-format"
  /\ opts \in LayoutConfigs
  /\ src \in LayoutDocs
  /\ reports = <<>>
  /\ phase = "parsed"
  /\ applied = <<>>
  /\ before = src
  /\ pass = 0

-----------------------------------------------------------------------------
(* The host's loop.                                                        *)

RunRule(text) ==
  CASE rule = "class-property-grouping" -> GroupingClassBody(text)
    [] rule = "consistent-line-spacing" -> SpacingProgram(text)
    [] rule = "block-padding" -> BlockPaddingProgram(text)
    [] rule = "aligned-assignments" -> processBlockVariables(text)
    [] rule = "multiline-format" -> FormatProgram(text)

\* A fix function raised while its report was made: the pass is aborted.
Threw(rs) == \E k \in 1..Len(rs) : "threw" \in DOMAIN rs[k] /\ rs[k].threw

\* One analysis pass of the rule over the current text.  A text that does
\* not parse, or a rule that raises, ends the run with an error.
Analyse ==
  /\ phase = "parsed"
  /\ IF ~Parses(src) \/ Threw(RunRule(src))
     THEN reports' = <<>> /\ phase' = "error"
     ELSE reports' = RunRule(src) /\ phase' = "analysed"
  /\ UNCHANGED <<rule, opts, src, applied, before, pass>>

\* The host applies the fix of one report (an editor's quick fix) and
\* re-parses.
HostFixOne ==
  /\ phase = "analysed"
  /\ pass < MaxPasses
  /\ \E i \in 1..Len(reports) :
       /\ reports[i].fix.has
       /\ src' = ApplyFix(src, reports[i].fix)
       /\ applied' = <<reports[i]>>
  /\ before' = src
  /\ reports' = <<>>
  /\ phase' = "parsed"
  /\ pass' = pass + 1
  /\ UNCHANGED <<rule, opts>>

\* The host applies one non-overlapping batch of the offered fixes and
\* re-parses.
HostFixAll ==
  /\ phase = "analysed"
  /\ pass < MaxPasses
  /\ Len(Batch(reports)) >= 2
  /\ src' = ApplyBatch(src, Batch(reports))
  /\ applied' = Batch(reports)
  /\ before' = src
  /\ reports' = <<>>
  /\ phase' = "parsed"
  /\ pass' = pass + 1
  /\ UNCHANGED <<rule, opts>>

Next == Analyse \/ HostFixOne \/ HostFixAll

SpecGrouping == InitGrouping /\ [][Next]_vars

SpecGroupOrder == InitGroupOrder /\ [][Next]_vars

SpecAlphabetical == InitAlphabetical /\ [][Next]_vars

SpecClassification == InitClassification /\ [][Next]_vars

SpecConfiguration == InitConfiguration /\ [][Next]_vars

SpecSpacing == InitSpacing /\ [][Next]_vars

SpecImportGroups == InitImportGroups /\ [][Next]_vars

SpecNeighbours == InitNeighbours /\ [][Next]_vars

SpecSiblingPadding == InitSiblingPadding /\ [][Next]_vars

SpecFileEdges == InitFileEdges /\ [][Next]_vars

SpecLineComments == InitLineComments /\ [][Next]_vars

SpecAlignment == InitAlignment /\ [][Next]_vars

SpecKeywords == InitKeywords /\ [][Next]_vars

SpecRuns == InitRuns /\ [][Next]_vars

SpecCollections == InitCollections /\ [][Next]_vars

SpecThreshold == InitThreshold /\ [][Next]_vars

SpecTrailing == InitTrailing /\ [][Next]_vars

SpecLayout == InitLayout /\ [][Next]_vars

NextDocstring == Classify

SpecDocstring == InitDocstring /\ [][NextDocstring]_vars

-----------------------------------------------------------------------------
(* Claims about class-property-grouping.                                   *)

Analysed(r) == rule = r /\ phase = "analysed"

ReportsOf(id) == SelectSeq(reports, LAMBDA r : r.messageId = id)

\* The group of the j-th member of the body (0: unmatched) and its order.
GroupOf(doc, j) == getMemberGroup(doc.items[Body(doc)[j]])

OrderOf(doc, j) == opts.groups[GroupOf(doc, j)].order

\* The nearest matched member before the j-th one, 0 when there is none.
PrevMatched(doc, j) ==
  LET earlier == {i \in 1..(j - 1) : GroupOf(doc, i) # 0}
  IN  IF earlier = {} THEN 0
      ELSE CHOOSE i \in earlier : \A k \in earlier : k <= i

\* The members whose group order is lower than that of the nearest matched
\* member before them.
OrderDrops(doc) ==
  {j \in 1..Len(Body(doc)) :
     /\ GroupOf(doc, j) # 0
     /\ PrevMatched(doc, j) # 0
     /\ OrderOf(doc, j) < OrderOf(doc, PrevMatched(doc, j))}

\* C6: when a pass over a class body reports no wrongGroupOrder, any two
\* matched members x before y in source order, adjacent or not and with
\* unmatched members between them or not, have order(group(x)) <=
\* order(group(y)).
C6_GroupOrderMonotone ==
  (Analysed("class-property-grouping") /\ ReportsOf("wrongGroupOrder") = <<>>)
  => \A x, y \in 1..Len(Body(src)) :
       (x < y /\ GroupOf(src, x) # 0 /\ GroupOf(src, y) # 0)
       => OrderOf(src, x) <= OrderOf(src, y)

\* A passing class body of three members, two matched members of different
\* order around an unmatched one.
C6_Witness ==
  /\ Analysed("class-property-grouping")
  /\ ReportsOf("wrongGroupOrder") = <<>>
  /\ Len(Body(src)) = 3
  /\ GroupOf(src, 1) # 0 /\ GroupOf(src, 2) = 0 /\ GroupOf(src, 3) # 0
  /\ OrderOf(src, 1) < OrderOf(src, 3)

\* C7: wrongGroupOrder is reported, once, at exactly the matched members
\* whose order is lower than the order of the nearest matched member p
\* before them; the report names p's group and order as expected and the
\* member's own as actual, and carries no fix.  With the default groups an
\* instance property followed by a static method reports
\* instance-properties (2) and static-methods (1).
C7_OrderDiagnostic ==
  Analysed("class-property-grouping") =>
    LET reps == ReportsOf("wrongGroupOrder")
        body == Body(src)
    IN  /\ Len(reps) = Cardinality(OrderDrops(src))
        /\ \A j \in OrderDrops(src) :
             \E k \in 1..Len(reps) :
               LET p == opts.groups[GroupOf(src, PrevMatched(src, j))]
                   g == opts.groups[GroupOf(src, j)]
               IN  /\ reps[k].node = body[j]
                   /\ reps[k].data.expectedGroup = p.name
                   /\ reps[k].data.expectedGroupOrder = p.order
                   /\ reps[k].data.actualGroup = g.name
                   /\ reps[k].data.actualGroupOrder = g.order
                   /\ ~reps[k].fix.has
        /\ \A j \in 2..Len(body) :
             ( /\ opts.groups = DefaultGroups
               /\ src.items[body[j - 1]].t = "PropertyDefinition"
               /\ ~src.items[body[j - 1]].static
               /\ src.items[body[j]].t = "MethodDefinition"
               /\ src.items[body[j]].static )
             => \E k \in 1..Len(reps) :
                  /\ reps[k].node = body[j]
                  /\ reps[k].data.expectedGroup = "instance-properties"
                  /\ reps[k].data.expectedGroupOrder = 2
                  /\ reps[k].data.actualGroup = "static-methods"
                  /\ reps[k].data.actualGroupOrder = 1

\* A pass that reported a static method after an instance property, and a
\* later member that is in order after it.
C7_Witness ==
  /\ Analysed("class-property-grouping")
  /\ opts.groups = DefaultGroups
  /\ Len(Body(src)) = 3
  /\ Len(ReportsOf("wrongGroupOrder")) = 1
  /\ ReportsOf("wrongGroupOrder")[1].data.expectedGroup = "instance-properties"
  /\ ReportsOf("wrongGroupOrder")[1].data.actualGroup = "static-methods"
  /\ ReportsOf("wrongGroupOrder")[1].node = Body(src)[2]

\* C8 as stated: for every paddingBetweenGroups the schema accepts (0
\* included) and every two consecutive matched members whose groups differ,
\* incorrectPaddingBetweenGroups is reported at the later member exactly
\* when the number of blank lines between them differs from
\* paddingBetweenGroups.
C8_PaddingReportedIffDiffers ==
  Analysed("class-property-grouping") =>
    LET body == Body(src)
    IN  \A j \in 2..Len(body) :
          ( /\ GroupOf(src, j - 1) # 0
            /\ GroupOf(src, j) # 0
            /\ opts.groups[GroupOf(src, j - 1)].name
                 # opts.groups[GroupOf(src, j)].name )
          => ( (\E k \in 1..Len(reports) :
                  /\ reports[k].messageId = "incorrectPaddingBetweenGroups"
                  /\ reports[k].node = body[j])
               <=> (StartLine(src, body[j]) - EndLine(src, body[j - 1]) - 1
                      # opts.paddingBetweenGroups) )


\* The kind of a member as the descriptors name it.
KindOf(member) ==
  IF member.t \in {"PropertyDefinition", "TSPropertyDefinition"}
  THEN "ClassProperty" ELSE member.t

\* The first descriptor of the list that a test accepts the member for, 0
\* when none does.
FirstGroup(member, Accepts(_, _)) ==
  LET accepting == {g \in 1..Len(opts.groups) : Accepts(member, opts.groups[g])}
  IN  IF accepting = {} THEN 0
      ELSE CHOOSE g \in accepting : \A h \in accepting : g <= h

\* The test of C16 as stated: the kind is listed and every predicate of the
\* descriptor holds of the member.
AllPredicatesHold(member, d) ==
  /\ KindOf(member) \in d.types
  /\ "static" \in d.matches => member.static
  /\ "constructor" \in d.matches => member.kind = "constructor"
  /\ d.matches = {} => ~member.static /\ member.kind # "constructor"

\* The test of C16 as amended.
SomePredicateHolds(member, d) ==
  /\ KindOf(member) \in d.types
  /\ \/ /\ KindOf(member) = "MethodDefinition"
        /\ \/ member.kind = "constructor" /\ "constructor" \in d.matches
           \/ member.static /\ "static" \in d.matches
           \/ /\ ~member.static /\ member.kind # "constructor"
              /\ d.matches \cap {"static", "constructor"} = {}
     \/ /\ KindOf(member) = "ClassProperty"
        /\ member.static <=> "static" \in d.matches

\* The members the reports of the pass are about: the member reported, and
\* for a padding report the member before it.
ReportedMembers ==
  { reports[k].node : k \in 1..Len(reports) }
    \cup { reports[k].node - 1 :
             k \in { i \in 1..Len(reports) :
                       reports[i].messageId = "incorrectPaddingBetweenGroups" } }

\* C16 as stated: a member is assigned the first descriptor in list order
\* whose types hold its kind and all of whose predicates hold of it, a
\* descriptor with no predicate asking for a plain instance member; a
\* member without such a descriptor is in no report.
C16_AllPredicates ==
  Analysed("class-property-grouping") =>
    /\ \A j \in 1..Len(Body(src)) :
         GroupOf(src, j) = FirstGroup(src.items[Body(src)[j]], AllPredicatesHold)
    /\ \A i \in ReportedMembers :
         FirstGroup(src.items[i], AllPredicatesHold) # 0

\* C16, amended: a method is accepted by a descriptor that lists its kind
\* when it is a constructor and the descriptor has "constructor", or is
\* static and the descriptor has "static", or is neither and the descriptor
\* has neither; a property when it is static and the descriptor has
\* "static", or is not static and the descriptor has no "static"; a member
\* of another kind never.  The member is assigned the first accepting
\* descriptor in list order, and a member with none is in no report.
C16_Classification ==
  Analysed("class-property-grouping") =>
    /\ \A j \in 1..Len(Body(src)) :
         GroupOf(src, j) = FirstGroup(src.items[Body(src)[j]], SomePredicateHolds)
    /\ \A i \in ReportedMembers :
         FirstGroup(src.items[i], SomePredicateHolds) # 0

\* A constructor and a static method, both assigned the descriptor that has
\* both predicates, with a report of the pass between matched members.
C16_Witness ==
  /\ Analysed("class-property-grouping")
  /\ opts.groups = EitherPredicate
  /\ \E x, y \in 1..Len(Body(src)) :
       /\ src.items[Body(src)[x]].kind = "constructor"
       /\ src.items[Body(src)[y]].static
       /\ src.items[Body(src)[y]].t = "MethodDefinition"
       /\ GroupOf(src, x) = 1
       /\ GroupOf(src, y) = 1
  /\ reports # <<>>

\* C17: under every options object the schema accepts, a group descriptor
\* with only `name` and `order` included, the analysis of a class body of
\* two or more members completes without raising an error.
C17_ConfigurationSafe ==
  rule = "class-property-grouping" /\ Len(Body(before)) >= 2
    => phase # "error"


\* The name of the descriptor matched by the j-th member, "" for none.
GroupNameOf(doc, j) ==
  IF GroupOf(doc, j) = 0 THEN "" ELSE opts.groups[GroupOf(doc, j)].name

NameOf(doc, j) == getMemberName(doc.items[Body(doc)[j]])

\* Members x < y of one group, both named, the later sorting before the
\* earlier.
Regression(doc, x, y) ==
  /\ x < y
  /\ GroupNameOf(doc, x) # "" /\ GroupNameOf(doc, x) = GroupNameOf(doc, y)
  /\ NameOf(doc, x) # "" /\ NameOf(doc, y) # ""
  /\ localeCompare(NameOf(doc, x), NameOf(doc, y)) > 0

\* C26: with enforceAlphabeticalSorting on, a pass over a class body that
\* reports no wrongAlphabeticalOrder leaves, in every group (the members
\* matched to descriptors of one name, in source order), the names of the
\* named members in non-decreasing order, and a wrongAlphabeticalOrder is
\* reported at the later member of a regression; with the option off no
\* wrongAlphabeticalOrder is reported.
C26_AlphabeticalCheck ==
  (rule = "class-property-grouping" /\ phase \in {"analysed", "error"}) =>
    LET n == Len(Body(src))
    IN  /\ (opts.enforceAlphabeticalSorting
            /\ ReportsOf("wrongAlphabeticalOrder") = <<>>)
           => \A x, y \in 1..n : ~Regression(src, x, y)
        /\ \A k \in 1..Len(reports) :
             reports[k].messageId = "wrongAlphabeticalOrder"
             => /\ opts.enforceAlphabeticalSorting
                /\ \E x, y \in 1..n :
                     Regression(src, x, y) /\ Body(src)[y] = reports[k].node

-----------------------------------------------------------------------------
(* Claims about consistent-line-spacing.                                   *)

Reported(id, node) ==
  \E k \in 1..Len(reports) :
    reports[k].messageId = id /\ reports[k].node = node

\* The category of a statement: "" for statements the rule has no handler
\* for and for comments.
CategoryOf(it) ==
  CASE it.t = "ImportDeclaration" -> "import"
    [] it.t \in {"ExportNamedDeclaration", "ExportDefaultDeclaration",
                 "ExportAllDeclaration"} -> "export"
    [] it.t = "ClassDeclaration" -> "class"
    [] it.t = "FunctionDeclaration" -> "function"
    [] OTHER -> ""

RequiredBefore(it) ==
  CASE CategoryOf(it) = "import" -> opts.beforeImports
    [] CategoryOf(it) = "export" -> opts.beforeExports
    [] CategoryOf(it) = "class" -> opts.beforeClass
    [] OTHER -> opts.beforeFunction

RequiredAfter(it) ==
  CASE CategoryOf(it) = "import" -> opts.afterImports
    [] CategoryOf(it) = "export" -> opts.afterExports
    [] CategoryOf(it) = "class" -> opts.afterClass
    [] OTHER -> opts.afterFunction

\* Blank lines between two items of the text.
BlankBetween(doc, a, b) == StartLine(doc, b) - EndLine(doc, a) - 1

\* C2 as stated: under the default options, after the fix offered for the
\* gap between two adjacent top-level statements A and B (each an import,
\* export, class or function, no comment between them) is applied and the
\* rule runs again, neither missingLinesAfter at A nor missingLinesBefore at
\* B is reported; and two imports, one blank line and a function
\* declaration are reported as valid.
C2_FixSettlesGap ==
  (Analysed("consistent-line-spacing") /\ opts = SpacingDefaults) =>
    /\ (pass >= 1 /\ Len(applied) = 1) =>
         LET r == applied[1]
             a == IF r.messageId = "missingLinesAfter" THEN r.node
                  ELSE r.node - 1
             b == a + 1
         IN  ( /\ a >= 1 /\ b <= Len(src.items)
               /\ CategoryOf(src.items[a]) # ""
               /\ CategoryOf(src.items[b]) # "" )
             => /\ ~Reported("missingLinesAfter", a)
                /\ ~Reported("missingLinesBefore", b)
    /\ src = ProgramDoc(<< Statement("ImportDeclaration", TRUE, 1),
                           Statement("ImportDeclaration", TRUE, 1),
                           Statement("FunctionDeclaration", FALSE, 1) >>,
                        <<0, 1, 2>>)
       => reports = <<>>

C10_AdjacentImportsExempt ==
  (Analysed("consistent-line-spacing") /\ opts.skipImportGroups) =>
    \A i \in 1..(Len(src.items) - 1) :
      ( /\ CategoryOf(src.items[i]) = "import"
        /\ CategoryOf(src.items[i + 1]) = "import"
        /\ BlankBetween(src, i, i + 1) = 0 )
      => /\ ~Reported("missingLinesAfter", i)
         /\ ~Reported("missingLinesBefore", i + 1)

\* C15: a statement with no token before it, comments counted, gets no
\* report from its before check, one with no token after it none from its
\* after check; the pass raises no error and the other check of the
\* statement is made as for any statement.  With ignoreTopLevelCode the
\* before check of the first and the after check of the last statement of
\* the Program are skipped.
C15_MissingNeighbour ==
  rule = "consistent-line-spacing" =>
    /\ phase # "error"
    /\ phase = "analysed" =>
         LET n == Len(src.items)
             body == Body(src)
             first == body[1]
             last == body[Len(body)]
         IN  /\ ~Reported("missingLinesBefore", 1)
             /\ ~Reported("missingLinesAfter", n)
             /\ (opts.ignoreTopLevelCode /\ body # <<>>) =>
                  /\ ~Reported("missingLinesBefore", first)
                  /\ ~Reported("missingLinesAfter", last)
             /\ ( /\ n > 1
                  /\ CategoryOf(src.items[1]) \in {"export", "class", "function"}
                  /\ ~(opts.ignoreTopLevelCode /\ last = 1) ) =>
                  ( Reported("missingLinesAfter", 1)
                      <=> BlankBetween(src, 1, 2) # RequiredAfter(src.items[1]) )
             /\ ( /\ n > 1
                  /\ CategoryOf(src.items[n]) \in {"export", "class", "function"}
                  /\ ~(opts.ignoreTopLevelCode /\ first = n) ) =>
                  ( Reported("missingLinesBefore", n)
                      <=> BlankBetween(src, n - 1, n)
                            # RequiredBefore(src.items[n]) )

\* A function declaration on the first line, nothing before it, followed
\* on the next line by another statement: its before check is silent and
\* its after check reports.
C15_Witness ==
  /\ Analysed("consistent-line-spacing")
  /\ ~opts.ignoreTopLevelCode
  /\ Len(src.items) > 1
  /\ src.items[1].t = "FunctionDeclaration"
  /\ BlankBetween(src, 1, 2) = 0
  /\ ~Reported("missingLinesBefore", 1)
  /\ Reported("missingLinesAfter", 1)

-----------------------------------------------------------------------------
(* Claims about block-padding.                                             *)

SiblingMessage(doc) ==
  IF doc.parent = "Program" THEN "missingPaddingBetweenRootBlocks"
  ELSE "missingPaddingBetweenNestedBlocks"

RequiredPadding(doc) ==
  IF doc.parent = "Program" THEN opts.rootBlockPadding
  ELSE opts.nestedBlockPadding

\* The position in the body of the sibling at item `node`.
BodyPos(doc, node) ==
  CHOOSE k \in 1..Len(Body(doc)) : Body(doc)[k] = node

\* C5: for every two consecutive siblings of a body (root declarations with
\* R = rootBlockPadding; statements of a block, switch cases or class
\* members with N = nestedBlockPadding) one diagnostic is reported at the
\* later sibling exactly when later.startLine - earlier.endLine - 1 differs
\* from the required count, and it carries the required and the actual
\* count; after its fix is applied the two siblings are the required number
\* of blank lines apart, and the next pass reports nothing for the pair.
C5_SiblingPadding ==
  rule = "block-padding" =>
    LET body == Body(src)
        msg == SiblingMessage(src)
        req == RequiredPadding(src)
    IN  /\ phase = "analysed" =>
             \A j \in 2..Len(body) :
               LET act == BlankBetween(src, body[j - 1], body[j])
                   reps == SelectSeq(reports, LAMBDA r :
                             r.messageId = msg /\ r.node = body[j])
               IN  /\ Len(reps) = (IF act # req THEN 1 ELSE 0)
                   /\ \A k \in 1..Len(reps) :
                        /\ reps[k].data.expected = req
                        /\ reps[k].data.actual = act
                        /\ reps[k].fix.has
        /\ \A k \in 1..Len(applied) :
             applied[k].messageId = msg =>
               LET pos == BodyPos(before, applied[k].node)
               IN  /\ Len(body) = Len(Body(before))
                   /\ BlankBetween(src, body[pos - 1], body[pos]) = req
                   /\ phase = "analysed" => ~Reported(msg, body[pos])

\* Two root declarations on consecutive lines under the defaults, reported
\* with expected 2 and actual 0, fixed, and analysed again.
C5_Witness ==
  /\ rule = "block-padding"
  /\ phase = "analysed"
  /\ src.parent = "Program"
  /\ opts.rootBlockPadding = 2
  /\ Len(applied) = 1
  /\ applied[1].messageId = "missingPaddingBetweenRootBlocks"
  /\ applied[1].data = [expected |-> 2, actual |-> 0]
  /\ BlankBetween(src, Body(src)[1], Body(src)[2]) = 2
  /\ ~Reported("missingPaddingBetweenRootBlocks", Body(src)[2])

\* C14: the count of blank lines a rule computes for two consecutive
\* siblings a before b, siblings that share a line included, is
\* b.startLine - a.endLine - 1, is 0 when b starts on the line after the
\* end of a, and is never negative: the actual count of every diagnostic
\* is at least 0.
C14_BlankLineCount ==
  Analysed("block-padding") =>
    \A k \in 1..Len(reports) :
      reports[k].messageId = SiblingMessage(src) =>
        LET b == reports[k].node
            a == Body(src)[BodyPos(src, b) - 1]
            actual == reports[k].data.actual
        IN  /\ actual = StartLine(src, b) - EndLine(src, a) - 1
            /\ StartLine(src, b) = EndLine(src, a) + 1 => actual = 0
            /\ actual >= 0

\* The blank lines the file starts with: the lines before its first content.
LeadingBlank(doc) == doc.items[1].pre

\* C19: with enforceBeginningPadding on, missingPaddingAtBeginning is
\* reported exactly when the file starts with one or more blank lines
\* before its first content (a file whose first line is a comment is not
\* reported); after the fix the file has no leading blank line and the next
\* pass reports no missingPaddingAtBeginning; with the option off nothing
\* is reported.
C19_BeginningPadding ==
  rule = "block-padding" /\ src.parent = "Program" /\ Body(src) # <<>> =>
    /\ phase = "analysed" =>
         (ReportsOf("missingPaddingAtBeginning") # <<>>
            <=> opts.enforceBeginningPadding /\ LeadingBlank(src) > 0)
    /\ \A a \in 1..Len(applied) :
         applied[a].messageId = "missingPaddingAtBeginning" =>
           /\ LeadingBlank(src) = 0
           /\ phase = "analysed" =>
                ReportsOf("missingPaddingAtBeginning") = <<>>

\* The blank lines at the end of the file: the lines of the text (split at
\* the line terminators, the last line after the last terminator counted)
\* below the last line of the last top-level declaration that hold no
\* comment.
TrailingBlank(doc) ==
  LET body == Body(doc)
      last == body[Len(body)]
  IN  TotalLines(doc) - EndLine(doc, last)
        - SumSeq([i \in 1..(Len(doc.items) - last) |-> doc.items[last + i].h])

\* C20: with enforceEndPadding on, missingPaddingAtEnd is reported exactly
\* when the number of blank lines between the last line of the last
\* top-level declaration and the end of the file differs from
\* rootBlockPadding; after the fix the file has exactly rootBlockPadding
\* trailing blank lines and the next pass reports no missingPaddingAtEnd.
C20_EndPadding ==
  rule = "block-padding" /\ src.parent = "Program" /\ Body(src) # <<>> =>
    /\ phase = "analysed" =>
         (ReportsOf("missingPaddingAtEnd") # <<>>
            <=> /\ opts.enforceEndPadding
                /\ TrailingBlank(src) # opts.rootBlockPadding)
    /\ \A a \in 1..Len(applied) :
         applied[a].messageId = "missingPaddingAtEnd" =>
           /\ TrailingBlank(src) = opts.rootBlockPadding
           /\ phase = "analysed" => ReportsOf("missingPaddingAtEnd") = <<>>

\* C21: a function declaration, class declaration or method preceded by a
\* doc block whose distance differs from docstringPadding is reported with
\* missingPaddingAfterDocstring exactly once in a pass, at the file root, in
\* a nested block or in a class body.
C21_DocstringOnce ==
  Analysed("block-padding") =>
    \A i \in 2..Len(src.items) :
      /\ src.items[i].t \in {"FunctionDeclaration", "ClassDeclaration",
                             "MethodDefinition"}
      /\ src.items[i - 1].t = "Block"
      /\ Includes(src.items[i - 1].txt, <<"\n">>)
      /\ StartLine(src, i) - EndLine(src, i - 1) - 1 # opts.docstringPadding
      => Len(SelectSeq(reports,
                       LAMBDA r : /\ r.messageId = "missingPaddingAfterDocstring"
                                  /\ r.node = i)) = 1

RECURSIVE LineRun(_, _)
\* The line comments that end directly above item i: item i - 1 when it is
\* a line comment, and before it every line comment on the line above the
\* one after it.
LineRun(doc, i) ==
  IF i <= 1 \/ doc.items[i - 1].t # "Line" THEN <<>>
  ELSE IF i > 2 /\ doc.items[i - 2].t = "Line" /\ doc.items[i - 1].pre = 1
  THEN Append(LineRun(doc, i - 1), i - 1)
  ELSE <<i - 1>>

\* The line comments before item i that make a doc block: two or more on
\* consecutive lines, or one with the annotation pattern.
LineDocBlock(doc, i) ==
  LET run == LineRun(doc, i)
  IN  \/ Len(run) >= 2
      \/ Len(run) = 1 /\ HasDocstringPattern(doc.items[run[1]].txt)

\* C27: with treatCommentsAsDocstrings on, line comments before a
\* declaration that make a doc block have the docstring padding checked
\* from the last of them, whatever other comments come before them:
\* missingPaddingAfterDocstring is reported for the declaration exactly
\* when the blank lines between the last line comment and the declaration
\* differ from docstringPadding.  With the option off, a declaration with
\* only line comments before it is not reported.
C27_LineCommentDocBlock ==
  Analysed("block-padding") =>
    \A i \in 2..Len(src.items) :
      src.items[i].t = "FunctionDeclaration" =>
        /\ (opts.treatCommentsAsDocstrings /\ LineDocBlock(src, i))
           => ( Reported("missingPaddingAfterDocstring", i)
                <=> StartLine(src, i) - EndLine(src, i - 1) - 1
                      # opts.docstringPadding )
        /\ ( /\ ~opts.treatCommentsAsDocstrings
             /\ \A c \in 1..Len(getCommentsBefore(src, i)) :
                  src.items[getCommentsBefore(src, i)[c]].t = "Line" )
           => ~Reported("missingPaddingAfterDocstring", i)

\* The tokens and comments of a text, the white space between them left out.
Content(doc) == [i \in 1..Len(doc.items) |-> [doc.items[i] EXCEPT !.pre = 0]]

\* C29: every fix offered by the blank-line padding rule replaces a range
\* that holds white space only, also when comments lie between the two
\* siblings or after the last declaration: no token and no comment of the
\* text lies in the range of an offered fix, and the text after the fixes of
\* a pass has the tokens and comments it had before them.
C29_WhitespaceOnly ==
  rule = "block-padding" =>
    /\ phase = "analysed" =>
         \A k \in 1..Len(reports) :
           reports[k].fix.has =>
             \A i \in 1..Len(src.items) :
               \/ RangeEnd(src, i) <= reports[k].fix.range[1]
               \/ RangeStart(src, i) >= reports[k].fix.range[2]
    /\ applied # <<>> => Content(src) = Content(before)

-----------------------------------------------------------------------------
(* Claims about aligned-assignments.                                       *)

\* The run (of the pass over doc) that declarator d belongs to.
RunOf(doc, d) ==
  LET withInits == SelectSeq([i \in 1..Len(doc.lines) |-> i],
                             LAMBDA x : HasInit(doc, x))
      runs == AdjacentGroupsFrom(doc, withInits, 2, <<withInits[1]>>)
      k == CHOOSE k \in 1..Len(runs) :
             \E j \in 1..Len(runs[k]) : runs[k][j] = d
  IN  runs[k]

\* The largest operator column of a run.
RunMax(doc, run) ==
  MaxOf({ getEqualsColumn(doc, run[k]) : k \in 1..Len(run) })

\* C1 as stated: after the misalignedAssignment fix offered for a
\* declarator of a qualifying run is applied, the declarator's assignment
\* operator is at the largest operator column the run had before the fix;
\* and once the fixes of all misaligned declarators of the run are applied
\* the next pass reports no misalignedAssignment for the run.
C1_FixAlignsOperator ==
  rule = "aligned-assignments" =>
    \A a \in 1..Len(applied) :
      applied[a].messageId = "misalignedAssignment" =>
        LET d == applied[a].node
            run == RunOf(before, d)
            max == RunMax(before, run)
            allFixed ==
              \A k \in 1..Len(run) :
                getEqualsColumn(before, run[k]) # max
                => \E b \in 1..Len(applied) :
                     /\ applied[b].node = run[k]
                     /\ applied[b].messageId = "misalignedAssignment"
        IN  /\ Parses(src)
            /\ getEqualsColumn(src, d) = max
            /\ phase # "error"
            /\ (phase = "analysed" /\ allFixed) =>
                 \A k \in 1..Len(run) :
                   ~Reported("misalignedAssignment", run[k])

\* Declarators a..b are of one run: each has an initialiser and each but
\* the first is on the line after the one before it.
OneRun(doc, a, b) ==
  /\ \A x \in a..b : HasInit(doc, x)
  /\ \A x \in (a + 1)..b : DeclLine(doc, x) = DeclLine(doc, x - 1) + 1

\* The declarators of the run of declarator d.
KeywordRun(doc, d) ==
  { x \in 1..Len(doc.lines) :
      IF x <= d THEN OneRun(doc, x, d) ELSE OneRun(doc, d, x) }

MixedKeywords(doc, run) ==
  \E x, y \in run : doc.lines[x].kind # doc.lines[y].kind

OperatorColumns(doc) ==
  { getEqualsColumn(doc, d) : d \in { x \in 1..Len(doc.lines) : HasInit(doc, x) } }

\* C28: in the loop of analysing and applying the offered fixes, started
\* from a block with a checked run of misaligned operators, no operator is
\* moved beyond the largest operator column of the original text (which is
\* what lets the loop end in a pass without misalignedAssignment): after
\* the first batch of fixes every operator column is at most the largest
\* operator column before it, and the text still parses.
C28_ColumnsBounded ==
  (rule = "aligned-assignments" /\ pass = 1
   /\ \E a \in 1..Len(applied) : applied[a].messageId = "misalignedAssignment")
  => /\ Parses(src)
     /\ \A c \in OperatorColumns(src) : c <= MaxOf(OperatorColumns(before))

\* C30: for every declarator of a checked run, with and without type
\* annotations and with alignTypes on or off, the two padding widths the
\* fix computes are not negative: no pass over a text that parses raises
\* while a fix is computed, so no such pass ends with an error.
C30_FixArithmetic ==
  (rule = "aligned-assignments" /\ Parses(src)) => phase # "error"

\* The reports of the pass for declarator d.
ReportsFor(d) == SelectSeq(reports, LAMBDA r : r.node = d)

-----------------------------------------------------------------------------
(* Claims about multiline-format.                                          *)

\* The literal of the text whose opening bracket is segment o.
LiteralAt(doc, o) ==
  LET found == SelectSeq(LiteralNodes(doc), LAMBDA node : node.open = o)
  IN  found[1]

\* The one fix the host applied last was offered with singleLineToMultiline.
\* The text before the opening bracket is untouched, so the literal opens at
\* the same segment of the new text.
MadeMultiline ==
  /\ rule = "multiline-format"
  /\ Len(applied) = 1
  /\ applied[1].messageId = "singleLineToMultiline"

\* C3: whenever singleLineToMultiline is reported for a literal, the text
\* its fix produces has the opening and the closing bracket on different
\* lines and no two items on one line, and the next analysis of the fixed
\* text reports nothing for that literal.
C3_FixMakesMultiline ==
  MadeMultiline =>
    LET node == LiteralAt(src, applied[1].node)
        elements == node.elements
    IN  /\ LitLine(src.text, node.open) # LitLine(src.text, node.close)
        /\ \A i \in 1..(Len(elements) - 1) :
             LitLine(src.text, elements[i].to)
               # LitLine(src.text, elements[i + 1].from)
        /\ phase = "analysed" =>
             \A k \in 1..Len(reports) : reports[k].node # node.open

\* The reports of the pass at the literal that opens at segment o.
ReportsAt(o) == SelectSeq(reports, LAMBDA r : r.node = o)

\* A literal of the text written on one line whose one-line length, from
\* its column on, stays within maxLineLength.
ShortOneLiner(doc, node) ==
  /\ LitLine(doc.text, node.open) = LitLine(doc.text, node.close)
  /\ LitColumn(doc, node.open)
       + (LitEnd(doc.text, node.close) - LitStart(doc.text, node.open))
     <= opts.maxLineLength

\* C11: with multilineStyle "consistent", a literal written on one line
\* whose length stays within maxLineLength is reported, once and with
\* singleLineToMultiline, when it has minItems items or more, and is not
\* reported at all when it has fewer.
C11_Threshold ==
  (Analysed("multiline-format") /\ opts.multilineStyle = "consistent") =>
    \A k \in 1..Len(LiteralNodes(src)) :
      LET node == LiteralNodes(src)[k]
          at == ReportsAt(node.open)
      IN  ShortOneLiner(src, node) =>
            IF Len(node.elements) >= opts.minItems
            THEN Len(at) = 1 /\ at[1].messageId = "singleLineToMultiline"
            ELSE at = <<>>

\* A sequence literal of exactly minItems short items on one line is
\* reported once, and in another pass one of minItems - 1 is not: here the
\* first, an array of minItems items with one report.
C11_Witness ==
  /\ Analysed("multiline-format")
  /\ opts.multilineStyle = "consistent"
  /\ \E k \in 1..Len(LiteralNodes(src)) :
       LET node == LiteralNodes(src)[k]
       IN  /\ node.type = "ArrayExpression"
           /\ ShortOneLiner(src, node)
           /\ Len(node.elements) = opts.minItems
           /\ Len(ReportsAt(node.open)) = 1

\* The diagnostics of the trailing separator.
TrailingIds == {"missingTrailingComma", "unexpectedTrailingComma"}

\* The one fix the host applied last was offered with a diagnostic of the
\* trailing separator.
TrailingFixed ==
  /\ rule = "multiline-format"
  /\ Len(applied) = 1
  /\ applied[1].messageId \in TrailingIds

\* The separator after segment j: the next token when it is a ",", else 0.
SeparatorAfter(segs, j) ==
  LET next == {k \in (j + 1)..Len(segs) : ~IsSpace(segs[k])}
      first == CHOOSE k \in next : \A m \in next : k <= m
  IN  IF next # {} /\ segs[first].c = "," THEN first ELSE 0

\* A multiline literal of the analysed text that has items and passes the
\* indentation and the newline check.
PassesLayoutChecks(node) ==
  /\ node.elements # <<>>
  /\ LitLine(src.text, node.open) # LitLine(src.text, node.close)
  /\ \A k \in 1..Len(reports) :
       reports[k].node = node.open =>
         reports[k].messageId \notin {"inconsistentIndentation",
                                      "inconsistentNewlines"}

\* C12: a multiline literal that passes the indentation and the newline
\* check is reported with missingTrailingComma when trailingComma is
\* "always" and no separator follows its last item, and with
\* unexpectedTrailingComma when trailingComma is "never" and one follows.
\* The first fix puts one "," at the end offset of the last item, the
\* second removes the text from there through the separator; neither
\* changes another character, and the next pass reports no diagnostic of
\* the trailing separator for the literal.
C12_TrailingSeparator ==
  /\ Analysed("multiline-format") =>
       \A k \in 1..Len(LiteralNodes(src)) :
         LET node == LiteralNodes(src)[k]
             last == node.elements[Len(node.elements)].to
             sep == SeparatorAfter(src.text, last)
             ids == { r.messageId : r \in
                        { reports[i] : i \in
                            { j \in 1..Len(reports) :
                                reports[j].node = node.open } } }
         IN  PassesLayoutChecks(node) =>
               /\ (opts.trailingComma = "always" /\ sep = 0)
                    => "missingTrailingComma" \in ids
               /\ (opts.trailingComma = "never" /\ sep # 0)
                    => "unexpectedTrailingComma" \in ids
  /\ TrailingFixed =>
       LET old == before.text
           node == LiteralAt(before, applied[1].node)
           last == node.elements[Len(node.elements)].to
           sep == SeparatorAfter(old, last)
           fix == applied[1].fix
       IN  /\ applied[1].messageId = "missingTrailingComma" =>
               /\ fix.range = <<LitEnd(old, last), LitEnd(old, last)>>
               /\ src.text = SubSeq(old, 1, last) \o <<Seg(",", 1)>>
                               \o SubSeq(old, last + 1, Len(old))
           /\ applied[1].messageId = "unexpectedTrailingComma" =>
               /\ sep # 0
               /\ fix.range = <<LitEnd(old, last), LitEnd(old, sep)>>
               /\ src.text = MergeSpace(SubSeq(old, 1, last)
                                        \o SubSeq(old, sep + 1, Len(old)))
           /\ phase = "analysed" =>
                \A k \in 1..Len(reports) :
                  reports[k].node = node.open
                    => reports[k].messageId \notin TrailingIds

\* The checks of a multiline literal, each on its own.
WrongIndentation(doc, node) ==
  \E k \in 1..Len(node.elements) :
    /\ LitLine(doc.text, node.elements[k].from) # LitLine(doc.text, node.open)
    /\ LitColumn(doc, node.elements[k].from)
         # LitColumn(doc, node.open) + opts.indentation

SharedLines(doc, node) ==
  \/ \E k \in 1..(Len(node.elements) - 1) :
       LitLine(doc.text, node.elements[k].to)
         = LitLine(doc.text, node.elements[k + 1].from)
  \/ LitLine(doc.text, node.elements[Len(node.elements)].to)
       = LitLine(doc.text, node.close)

HasTrailingSeparator(doc, node) ==
  doc.text[TokenAfterSeg(doc.text, node.elements[Len(node.elements)].to)].c
    = ","

PropertiesOf(doc, node) ==
  { k \in 1..Len(node.elements) : doc.text[node.elements[k].from].c = "key" }

UnevenSpacing(doc, node) ==
  \E x, y \in PropertiesOf(doc, node) :
    ColonSpacing(doc.text, node.elements[x])
      # ColonSpacing(doc.text, node.elements[y])

UnalignedColons(doc, node) ==
  \E x, y \in PropertiesOf(doc, node) :
    LitColumn(doc, ColonOf(doc.text, node.elements[x]))
      # LitColumn(doc, ColonOf(doc.text, node.elements[y]))

\* The diagnostic of the first check that fails, "" when none does.
FirstFailing(doc, node) ==
  LET record == node.type = "ObjectExpression"
  IN  IF WrongIndentation(doc, node) THEN "inconsistentIndentation"
      ELSE IF opts.multilineStyle = "always" /\ SharedLines(doc, node)
      THEN "inconsistentNewlines"
      ELSE IF opts.trailingComma = "always" /\ ~HasTrailingSeparator(doc, node)
      THEN "missingTrailingComma"
      ELSE IF opts.trailingComma = "never" /\ HasTrailingSeparator(doc, node)
      THEN "unexpectedTrailingComma"
      ELSE IF record /\ opts.consistentSpacing /\ UnevenSpacing(doc, node)
      THEN "inconsistentSpacing"
      ELSE IF record /\ opts.objectAlignment = "colon"
              /\ UnalignedColons(doc, node)
      THEN "incorrectColonAlignment"
      ELSE ""

\* C22: a multiline literal has at most one diagnostic in a pass, that of
\* the first failing check in the order indentation, newline consistency
\* (multilineStyle "always"), trailing separator, spacing around the colon
\* (records, consistentSpacing), colon alignment (records, objectAlignment
\* "colon"); none when every check passes.
C22_CheckOrder ==
  Analysed("multiline-format") =>
    \A k \in 1..Len(LiteralNodes(src)) :
      LET node == LiteralNodes(src)[k]
          rs == ReportsAt(node.open)
      IN  isMultiline(src, node) /\ node.elements # <<>> =>
            /\ Len(rs) <= 1
            /\ rs = <<>> <=> FirstFailing(src, node) = ""
            /\ rs # <<>> => rs[1].messageId = FirstFailing(src, node)

\* A literal with an entry at a wrong column and no separator after the
\* last entry, reported with inconsistentIndentation only.
C22_Witness ==
  /\ Analysed("multiline-format")
  /\ opts.trailingComma = "always"
  /\ \E k \in 1..Len(LiteralNodes(src)) :
       LET node == LiteralNodes(src)[k]
       IN  /\ isMultiline(src, node)
           /\ WrongIndentation(src, node)
           /\ ~HasTrailingSeparator(src, node)
           /\ Len(ReportsAt(node.open)) = 1
           /\ ReportsAt(node.open)[1].messageId = "inconsistentIndentation"

\* C23: for a multiline record whose entries differ in the white space
\* before or after the colon (objectAlignment "none", consistentSpacing on),
\* after the fix of inconsistentSpacing is applied the white space before
\* and after the colon is the same in all entries and the next pass reports
\* no inconsistentSpacing for the record.
C23_SpacingFix ==
  /\ rule = "multiline-format"
  /\ opts.objectAlignment = "none"
  /\ opts.consistentSpacing
  /\ Len(applied) = 1
  /\ applied[1].messageId = "inconsistentSpacing"
  => LET node == LiteralAt(src, applied[1].node)
     IN  /\ ~UnevenSpacing(src, node)
         /\ phase = "analysed" =>
              \A k \in 1..Len(reports) :
                reports[k].node = node.open
                => reports[k].messageId # "inconsistentSpacing"

\* The keys of the record's entries do not all have one length.
KeysDiffer(doc, node) ==
  \E x, y \in PropertiesOf(doc, node) :
    doc.text[node.elements[x].from].n # doc.text[node.elements[y].from].n

\* C24: with objectAlignment "colon" and the other options at their
\* defaults, after the full-reconstruction fix of a multiline record whose
\* keys differ in length is applied, the colons of all entries are in one
\* column and the next pass reports nothing for the record.
C24_KeyAlignment ==
  /\ rule = "multiline-format"
  /\ opts = [FormatDefaults EXCEPT !.objectAlignment = "colon"]
  /\ Len(applied) = 1
  /\ applied[1].messageId = "incorrectColonAlignment"
  /\ KeysDiffer(before, LiteralAt(before, applied[1].node))
  => LET node == LiteralAt(src, applied[1].node)
     IN  /\ ~UnalignedColons(src, node)
         /\ phase = "analysed" => ReportsAt(node.open) = <<>>

-----------------------------------------------------------------------------
(* Claims about the fixes of one pass.                                     *)

\* Two fixes share at least one character of the text.
RangesOverlap(a, b) ==
  a.range[1] < b.range[2] /\ b.range[1] < a.range[2]

\* C4: within one analysis pass of one rule over one text, any two fixes
\* the rule offers target disjoint ranges of the text.
C4_FixesDisjoint ==
  phase = "analysed" =>
    \A i, j \in 1..Len(reports) :
      (i < j /\ reports[i].fix.has /\ reports[j].fix.has)
        => ~RangesOverlap(reports[i].fix, reports[j].fix)

-----------------------------------------------------------------------------
(* Claims about the documentation-block predicate.                         *)

\* A comment has been classified.
Classified == rule = "isDocstring" /\ phase = "classified"

\* The text has a tag: an at-sign directly before a letter, a digit or "_".
HasTag(text) ==
  \E i \in 1..(Len(text) - 1) :
    text[i] = "@" /\ text[i + 1] \notin {"@", " ", "\n"}

\* The text with its capital letters made small.
Lowered(text) ==
  [i \in 1..Len(text) |->
     CASE text[i] = "A" -> "a" [] text[i] = "M" -> "m" [] text[i] = "P" -> "p"
       [] text[i] = "R" -> "r" [] OTHER -> text[i]]

\* One of the five words is part of the text.
HasWord(text) ==
  \/ Includes(text, <<"p", "a", "r", "a", "m">>)
  \/ Includes(text, <<"r", "e", "t", "u", "r", "n">>)
  \/ Includes(text, <<"d", "e", "s", "c", "r", "i", "p", "t", "i", "o", "n">>)
  \/ Includes(text, <<"e", "x", "a", "m", "p", "l", "e">>)
  \/ Includes(text, <<"a", "u", "t", "h", "o", "r">>)

\* C13 as stated: a block comment is a doc block if and only if its text
\* has a line terminator, a tag, or one of the words param, return,
\* description, example, author compared without regard to case; a line
\* comment never is.
C13_WordsAnyCase ==
  Classified =>
    (reports[1] <=>
       /\ src.t = "Block"
       /\ \/ \E i \in 1..Len(src.txt) : src.txt[i] = "\n"
          \/ HasTag(src.txt)
          \/ HasWord(Lowered(src.txt)))

\* C13, amended: the words are compared as written, in small letters.
C13_DocstringPredicate ==
  Classified =>
    (reports[1] <=>
       /\ src.t = "Block"
       /\ \/ \E i \in 1..Len(src.txt) : src.txt[i] = "\n"
          \/ HasTag(src.txt)
          \/ HasWord(src.txt))

\* A block comment of one line whose only word of the pattern is written
\* with capital letters has been classified, and is no doc block.
C13_Witness ==
  /\ Classified
  /\ src.t = "Block"
  /\ src.txt = <<"P", "A", "R", "A", "M">>
  /\ reports = <<FALSE>>

====
